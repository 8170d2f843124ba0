------------------------------ MODULE ReplayTool ------------------------------
(* tools/replay/zb_replay.py: `record` asks the old backend and writes a capture,
   `replay` asks the new one and compares.  A JSON value is a leaf with a kind and
   a value, an object with its members or an array with its elements; a text is
   either plain or one {{name}} placeholder.  The backends are external: each
   answers with any of its answers, or not at all.                            *)
EXTENDS Integers, Sequences, SequencesExt, FiniteSets

CONSTANTS
  RequestFiles,   \* sequences of cases, as a requests file or a capture holds them
  OldAnswers, NewAnswers, \* [status, body]
  Variables,      \* --var: name -> text
  Volatile,       \* the keys never expected
  MaxPasses,      \* MAX_SUBSTITUTION_PASSES
  Bytes(_),       \* what a leaf takes in a file, in some unit
  MaxCapture      \* MAX_CAPTURE_BYTES in that unit

VARIABLES
  mode,           \* "record", "replay", "over"
  cases,          \* the cases loaded
  todo,           \* what to do next: "load", "send", "open", "write", "replace"
  old, new,       \* the answers met so far, by case
  results,        \* replay: the findings so far; record: the recorded cases
  capture, findings, \* the two artifacts on disk, as sequences of rows
  temp,           \* rows of the temporary file being written
  exits           \* what each of the two commands returned; 9 while it has not

vars == <<mode, cases, todo, old, new, results, capture, findings, temp, exits>>

NoValue == [kind |-> "absent"]
Null == [kind |-> "null", v |-> ""]
Lost == [status |-> 0, body |-> NoValue] \* too large an answer is lost as well
Object(m) == [kind |-> "object", m |-> m]
Array(s) == [kind |-> "array", s |-> s]
(* what a run finds on disk of the runs before it *)
Prior == <<[id |-> 0]>>

-------------------------------------------------------------------------------
(* _expand_pass and substitute on one text: every pass resolves what is there, and
   more than MaxPasses of them are refused.  "refused" stands for ReplayError. *)
RECURSIVE Resolved(_, _)
Resolved(text, passes) ==
  IF text.kind # "template" THEN text
  ELSE IF passes = MaxPasses \/ text.v \notin DOMAIN Variables THEN [kind |-> "refused"]
  ELSE Resolved(Variables[text.v], passes + 1)

RECURSIVE Texts(_)
Texts(value) ==
  CASE value.kind = "object" -> UNION {Texts(value.m[k]) : k \in DOMAIN value.m}
    [] value.kind = "array" -> UNION {Texts(value.s[i]) : i \in DOMAIN value.s}
    [] OTHER -> {value}

(* send substitutes the whole case, its expectation included *)
Substitutable(case) ==
  \A t \in {case.text} \cup Texts(case.body) : Resolved(t, 0).kind # "refused"

RECURSIVE strip_volatile(_)
strip_volatile(value) ==
  CASE value.kind = "object" -> Object([k \in DOMAIN value.m \ Volatile |-> strip_volatile(value.m[k])])
    [] value.kind = "array" -> Array([i \in DOMAIN value.s |-> strip_volatile(value.s[i])])
    [] OTHER -> value

(* Python compares True and 1, and False and 0, as equal *)
PyEqual(x, y) ==
  x = y \/ (x.kind \in {"bool", "number"} /\ y.kind \in {"bool", "number"} /\ x.v = y.v)

(* actual.get(k, _MISSING), actual[i] if i < len(actual) *)
Member(m, k) == IF k \in DOMAIN m THEN m[k] ELSE NoValue

(* diff_subset finds no difference *)
RECURSIVE Matches(_, _)
Matches(expected, actual) ==
  CASE expected.kind = "object" ->
         actual.kind = "object" /\ \A k \in DOMAIN expected.m : Matches(expected.m[k], Member(actual.m, k))
    [] expected.kind = "array" ->
         actual.kind = "array" /\ \A i \in DOMAIN expected.s : Matches(expected.s[i], Member(actual.s, i))
    [] OTHER -> PyEqual(expected, actual)

compare(case, answer) ==
  IF /\ case.status \in {0, answer.status}
     /\ case.body.kind \notin {"absent", "null"} => answer.body.kind # "bytes" /\ Matches(case.body, answer.body)
  THEN "pass" ELSE "fail"

allowed_controls_for_status(s) ==
  CASE s \in 200..299 -> {"allowed"}
    [] s \in 300..399 -> {"allowed", "journey"}
    [] s = 400 -> {"denied", "validation"}
    [] s \in {401, 403, 404} -> {"denied"}
    [] s \in {409, 422} -> {"validation"}
    [] OTHER -> {}

validate_recorded_control(case, status) ==
  case.control # "none" => case.control \in allowed_controls_for_status(status)

RECURSIVE Size(_)
Size(value) ==
  CASE value.kind = "object" -> MapThenSumSet(LAMBDA k : Size(value.m[k]), DOMAIN value.m)
    [] value.kind = "array" -> MapThenSumSet(LAMBDA i : Size(value.s[i]), DOMAIN value.s)
    [] OTHER -> Bytes(value)

Total(rows) == MapThenSumSet(LAMBDA i : Size(rows[i].body), DOMAIN rows)

(* load_capture accepts the rows: of a file within the bound, which cmd_record does
   not look at when it writes one *)
Loads(rows, as) ==
  /\ rows # <<>> /\ Total(rows) <= MaxCapture
  /\ \A i, j \in DOMAIN rows : rows[i].id = rows[j].id => i = j
  /\ \A i \in DOMAIN rows :
       /\ rows[i].status \in {0} \cup 100..599
       /\ as = "replay" /\ rows[i].control # "none" =>
            rows[i].status # 0 /\ rows[i].control \in allowed_controls_for_status(rows[i].status)

-------------------------------------------------------------------------------
Fresh == /\ old = <<>> /\ new = <<>> /\ results = <<>> /\ findings = Prior /\ temp = <<>>
         /\ exits = [record |-> 9, replay |-> 9] /\ todo = "load"

(* a requests file is to be recorded, or a capture made by hand is to be replayed *)
Init ==
  /\ cases \in RequestFiles /\ Fresh
  /\ \/ mode = "record" /\ capture = Prior
     \/ mode = "replay" /\ capture = cases

(* main: ReplayError is exit 1; the next command may follow *)
Exit(code) ==
  /\ exits' = IF mode = "record" THEN [exits EXCEPT !.record = code] ELSE [exits EXCEPT !.replay = code]
  /\ mode' = IF mode = "record" /\ code = 0 THEN "replay" ELSE "over"
  /\ todo' = "load"

Stays == UNCHANGED <<mode, exits>>

Load ==
  /\ todo = "load" /\ mode # "over"
  /\ LET rows == IF mode = "record" THEN cases ELSE capture
     IN IF Loads(rows, mode)
        THEN cases' = rows /\ todo' = "send" /\ results' = <<>> /\ Stays
        ELSE Exit(1) /\ UNCHANGED <<cases, results>>
  /\ UNCHANGED <<old, new, capture, findings, temp>>

Sending == todo = "send" /\ Len(results) < Len(cases)
Case == cases[Len(results) + 1]

(* the expectation that `record` writes *)
Recorded(case, answer) ==
  [case EXCEPT !.status = answer.status,
               !.body = IF answer.body.kind = "bytes" THEN NoValue ELSE strip_volatile(answer.body)]

(* one failure ends the recording, and nothing of it is written *)
Record ==
  /\ Sending /\ mode = "record"
  /\ \E answer \in OldAnswers \cup {Lost} :
       /\ ~Substitutable(Case) => answer = Lost
       /\ old' = Append(old, answer)
       /\ IF answer = Lost \/ ~validate_recorded_control(Case, answer.status)
          THEN Exit(1) /\ UNCHANGED results
          ELSE results' = Append(results, Recorded(Case, answer)) /\ UNCHANGED todo /\ Stays
  /\ UNCHANGED <<cases, new, capture, findings, temp>>

(* a case that cannot be sent, for whatever reason, is an error finding *)
Replay ==
  /\ Sending /\ mode = "replay"
  /\ \E answer \in NewAnswers \cup {Lost} :
       /\ ~Substitutable(Case) => answer = Lost
       /\ new' = Append(new, answer)
       /\ results' = Append(results, [id |-> Case.id,
                                     result |-> IF answer = Lost THEN "error" ELSE compare(Case, answer)])
  /\ UNCHANGED <<mode, cases, todo, old, capture, findings, temp, exits>>

(* Mutant: the artifact itself is opened for writing. *)
OpenInPlace ==
  /\ temp' = <<>> /\ IF mode = "record" THEN capture' = <<>> /\ UNCHANGED findings
                     ELSE findings' = <<>> /\ UNCHANGED capture

(* mkstemp *)
Opened == temp' = <<>> /\ UNCHANGED <<capture, findings>>

Open ==
  /\ todo = "send" /\ Len(results) = Len(cases) /\ todo' = "write" /\ Opened
  /\ UNCHANGED <<mode, cases, old, new, results, exits>>

Write ==
  /\ todo = "write" /\ Len(temp) < Len(results)
  /\ temp' = Append(temp, results[Len(temp) + 1])
  /\ UNCHANGED <<mode, cases, todo, old, new, results, capture, findings, exits>>

Count(result) == Cardinality({i \in DOMAIN results : results[i].result = result})

(* what cmd_replay returns *)
ReplayExit ==
  IF Count("error") = Len(cases) THEN 1 ELSE IF Count("fail") + Count("error") > 0 THEN 2 ELSE 0

(* fsync and os.replace *)
Replace ==
  /\ todo = "write" /\ Len(temp) = Len(results) /\ temp' = <<>>
  /\ IF mode = "record" THEN capture' = temp /\ Exit(0) /\ UNCHANGED findings
     ELSE findings' = temp /\ Exit(ReplayExit) /\ UNCHANGED capture
  /\ UNCHANGED <<cases, old, new, results>>

(* a write fails and the temporary file is removed, or the process is killed *)
WriteFails ==
  /\ todo = "write" /\ temp' = <<>> /\ Exit(1)
  /\ UNCHANGED <<cases, old, new, results, capture, findings>>

Next == Load \/ Record \/ Replay \/ Open \/ Write \/ Replace \/ WriteFails

ReplaySpec == Init /\ [][Next]_vars

-------------------------------------------------------------------------------
(* the nodes of a value by the path that leads to them *)
Named(k) == [key |-> k, at |-> 0]
Index(i) == [key |-> "", at |-> i]

RECURSIVE Paths(_)
Paths(value) ==
  {<<>>} \cup
  CASE value.kind = "object" -> UNION {{<<Named(k)>> \o p : p \in Paths(value.m[k])} : k \in DOMAIN value.m}
    [] value.kind = "array" -> UNION {{<<Index(i)>> \o p : p \in Paths(value.s[i])} : i \in DOMAIN value.s}
    [] OTHER -> {}

RECURSIVE Node(_, _)
Node(value, path) ==
  IF path = <<>> THEN value
  ELSE LET k == Head(path).key
           i == Head(path).at
       IN CASE value.kind = "object" /\ k \in DOMAIN value.m -> Node(value.m[k], Tail(path))
            [] value.kind = "array" /\ i \in DOMAIN value.s -> Node(value.s[i], Tail(path))
            [] OTHER -> NoValue

(* what both answers say at every path of the first that crosses no volatile key;
   two containers are the same when they are of one kind *)
SameBut(Same(_, _), x, y) ==
  /\ y.status = x.status
  /\ \A p \in Paths(x.body) :
       ~(\E n \in DOMAIN p : p[n].key \in Volatile) =>
         LET from == Node(x.body, p)
             to == Node(y.body, p)
         IN (from.kind = to.kind /\ from.kind \in {"object", "array"}) \/ Same(from, to)

Strictly(v, w) == v = w

Replayed == exits.record = 0 /\ mode = "over" /\ Len(new) = Len(cases)

(* Exit 0 of a replay says that the new backend answers every recorded case as the
   old one did: the status, and every member and element the old answer had outside
   the volatile keys, however deep.  A null, an empty and a binary old body set no
   expectation, and a truth value matches the number Python takes it for. *)
ZeroMeansParity ==
  exits.replay = 0 /\ exits.record = 0 =>
    \A i \in DOMAIN cases :
      /\ i \in DOMAIN new /\ new[i].status = old[i].status
      /\ old[i].body.kind \notin {"null", "bytes"} => SameBut(PyEqual, old[i], new[i])

(* diff_subset: "Every key in `expected` must be present and equal in `actual`." *)
ZeroMeansSame ==
  exits.replay = 0 /\ exits.record = 0 =>
    \A i \in DOMAIN cases :
      old[i].body.kind \notin {"null", "bytes"} => SameBut(Strictly, old[i], new[i])

(* A backend that answers as it was recorded, whatever its ids and times are now,
   passes: no case of it is a failure or an error.  An answer that holds a
   {{placeholder}} of its own is the exception, since send resolves it. *)
SelfParity ==
  Replayed /\ exits.replay # 9 =>
    \A i \in DOMAIN results :
      /\ new[i] # Lost /\ \A t \in Texts(old[i].body) : t.kind # "template"
      /\ SameBut(Strictly, old[i], new[i]) /\ SameBut(Strictly, new[i], old[i])
      => results[i].result = "pass"

(* What `record` writes, `replay` loads: a label never disagrees with the status
   it was recorded with, and nothing of the requests was lost on the way.  Two
   recordings are the exceptions: with a status beyond 599, which http.client lets
   through, and with answers that are larger together than a capture may be (each
   alone is held to MAX_RESPONSE_BYTES, the file that is written to nothing). *)
RecordedLoads ==
  /\ exits.record = 0 /\ Total(old) <= MaxCapture
  /\ \A i \in DOMAIN old : old[i].status <= 599
  => Loads(capture, "replay")

(* At any moment, and wherever the tool is killed or cannot write, each artifact is
   the one of an earlier run or the complete one of this run. *)
ArtifactsWhole ==
  /\ IF exits.record = 0 THEN Len(capture) = Len(cases) ELSE capture \in {Prior, cases}
  /\ findings = Prior \/ (findings = results /\ Len(results) = Len(cases))

===============================================================================
