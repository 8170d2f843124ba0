----------------------------- MODULE MCReplayTool -----------------------------
(* Requests and answers for ReplayTool, as TLC is given them; values as that module
   has them. *)
EXTENDS TLC

NoValue == [kind |-> "absent"]
Null == [kind |-> "null", v |-> ""]
Object(m) == [kind |-> "object", m |-> m]
Array(s) == [kind |-> "array", s |-> s]

Text(v) == [kind |-> "text", v |-> v]
Bool(v) == [kind |-> "bool", v |-> v]
Number(v) == [kind |-> "number", v |-> v]
Template(name) == [kind |-> "template", v |-> name]
Plain == Text("plain")

Request(id, text, control) ==
  [id |-> id, text |-> text, control |-> control, status |-> 0, body |-> NoValue]

(* labelled and not, with placeholders that resolve, that do not, and that lead to
   themselves, the same id twice, and captures whose label needs a status *)
MCRequestFiles ==
  { <<>>,
    <<Request(1, Template("host"), "none"), Request(2, Plain, "none")>>,
    <<Request(1, Plain, "denied"), Request(2, Template("nested"), "none")>>,
    <<Request(1, Plain, "allowed"), Request(2, Template("self"), "none")>>,
    <<Request(1, Template("unknown"), "none"), Request(2, Plain, "none")>>,
    <<Request(1, Plain, "none"), Request(1, Plain, "none")>>,
    <<[Request(1, Plain, "denied") EXCEPT !.status = 302]>>,
    <<[Request(1, Plain, "journey") EXCEPT !.status = 302, !.body = Array(<<Bool("1")>>)]>> }

(* one long text fits into a capture, two of them do not *)
MCBytes(leaf) == IF leaf.kind = "text" /\ leaf.v = "long" THEN 2 ELSE 0

MCVariables == [host |-> Plain, nested |-> Template("host"), self |-> Template("self")]

Answer(status, body) == [status |-> status, body |-> body]
Row(id, done, extra) == Object([id |-> Text(id), done |-> done] @@ extra)

MCOldAnswers ==
  { Answer(200, Row("a", Bool("1"), <<>>)),
    Answer(200, Array(<<Row("a", Null, <<>>), Row("b", Bool("0"), <<>>)>>)),
    Answer(200, Object([items |-> Array(<<Row("a", Number("1"), <<>>)>>)])),
    Answer(200, Object([title |-> Template("unknown")])),
    Answer(200, Null), Answer(302, [kind |-> "bytes"]), Answer(404, Text("long")), Answer(999, Null) }

MCNewAnswers ==
  { Answer(200, Row("z", Bool("1"), [more |-> Null])),
    Answer(200, Row("z", Number("1"), <<>>)),
    Answer(200, Array(<<Row("z", Null, <<>>), Row("y", Bool("0"), <<>>)>>)),
    Answer(200, Array(<<Row("z", Null, <<>>)>>)),
    Answer(200, Array(<<Object([id |-> Text("z")]), Row("y", Bool("0"), <<>>)>>)),
    Answer(200, Object([items |-> Array(<<Row("z", Number("1"), <<>>), Null>>)])),
    Answer(302, [kind |-> "bytes"]), Answer(404, Text("long")) }
===============================================================================
