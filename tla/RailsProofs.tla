------------------------------ MODULE RailsProofs ------------------------------
(* What map_tables makes of a Rails application accounts for all of it, whatever its
   tables, models and associations are and whatever is decided; and a bundle that
   extract attests imports to its end, whatever the rows hold.                  *)
EXTENDS RailsMapping, RailsRows, FiniteSetTheorems, WellFoundedInduction, TLAPS

-------------------------------------------------------------------------------
\* What the relations of a table have claimed after n columns.
Claims(s, d, t, taken, n, g) ==
  [k \in 0..n |-> IF k = 0 THEN <<>> ELSE claim(s, d, t, taken, g[k - 1], ColumnOrder[k])]

\* Claiming comes to an end.
LEMMA ClaimsExist ==
  ASSUME NEW s, NEW d, NEW t, NEW taken, NEW n \in Nat
  PROVE  \E g : g = Claims(s, d, t, taken, n, g)
<1> DEFINE S == {m \in Nat : ~\E g : g = Claims(s, d, t, taken, m, g)}
<1> SUFFICES ASSUME S # {} PROVE FALSE
  OBVIOUS
<1>1. PICK m \in S : \A k \in S : ~(k < m)
  <2>1. \E x \in S : \A y \in S : <<y, x>> \notin OpToRel(<, Nat)
    BY WFMin, NatLessThanWellFounded, Zenon
  <2> QED
    BY <2>1, Zenon DEF OpToRel
<1>2. m \in Nat /\ ~\E g : g = Claims(s, d, t, taken, m, g)
  OBVIOUS
<1>3. CASE m = 0
  <2> DEFINE g == [k \in 0..0 |-> <<>>]
  <2>1. g = Claims(s, d, t, taken, 0, g)
    BY DEF Claims
  <2> QED
    BY <1>2, <1>3, <2>1
<1>4. CASE m # 0
  <2>1. m - 1 \in Nat /\ m - 1 < m
    BY <1>2, <1>4
  <2>2. PICK g : g = Claims(s, d, t, taken, m - 1, g)
    BY <1>1, <2>1
  <2>3. \A k \in 0..(m - 1) :
          g[k] = IF k = 0 THEN <<>> ELSE claim(s, d, t, taken, g[k - 1], ColumnOrder[k])
    BY <2>2 DEF Claims
  <2> DEFINE h == [k \in 0..m |-> IF k = m THEN claim(s, d, t, taken, g[m - 1], ColumnOrder[m]) ELSE g[k]]
  <2>4. \A k \in 0..m : h[k] = IF k = m THEN claim(s, d, t, taken, g[m - 1], ColumnOrder[m]) ELSE g[k]
    OBVIOUS
  <2>5. h = [k \in 0..m |-> h[k]]
    OBVIOUS
  <2> HIDE DEF h
  <2>6. \A k \in 0..m : h[k] = IF k = 0 THEN <<>> ELSE claim(s, d, t, taken, h[k - 1], ColumnOrder[k])
    <3> SUFFICES ASSUME NEW k \in 0..m
                 PROVE  h[k] = IF k = 0 THEN <<>> ELSE claim(s, d, t, taken, h[k - 1], ColumnOrder[k])
      OBVIOUS
    <3>1. CASE k = 0
      BY <1>2, <1>4, <2>1, <2>3, <2>4, <3>1
    <3>2. CASE k # 0
      <4>1. k - 1 \in 0..m /\ k - 1 # m /\ h[k - 1] = g[k - 1]
        BY <1>2, <2>4, <3>2
      <4>2. CASE k = m
        BY <2>4, <3>2, <4>1, <4>2
      <4>3. CASE k # m
        <5>1. k \in 0..(m - 1)
          BY <1>2, <4>3
        <5> QED
          BY <2>3, <2>4, <3>2, <4>1, <4>3, <5>1
      <4> QED
        BY <4>2, <4>3
    <3> QED
      BY <3>1, <3>2
  <2>7. h = Claims(s, d, t, taken, m, h)
    BY <2>5, <2>6 DEF Claims
  <2> QED
    BY <1>2, <2>7
<1> QED
  BY <1>3, <1>4

\* So the names of the relations are what was claimed of them.
LEMMA NamesAreClaims ==
  ASSUME NEW s, NEW d, NEW t, NEW taken
  PROVE  \E g : /\ g = Claims(s, d, t, taken, Len(ColumnOrder), g)
                /\ relation_names(s, d, t, taken) = g[Len(ColumnOrder)]
<1> DEFINE n == Len(ColumnOrder)
           f == CHOOSE g : g = [k \in 0..n |-> IF k = 0 THEN <<>> ELSE claim(s, d, t, taken, g[k - 1], ColumnOrder[k])]
<1>1. relation_names(s, d, t, taken) = f[n]
  BY DEF relation_names
<1>2. f = CHOOSE g : g = Claims(s, d, t, taken, n, g)
  BY DEF Claims
<1>3. f = Claims(s, d, t, taken, n, f)
  BY <1>2, ClaimsExist, RailsConstants
<1> QED
  BY <1>1, <1>3

\* A relation has the name an operator gave it, its own, or its own without _id.
NameOf(s, d, t, c, name) ==
  IF HasNewName(d, t, c) THEN name = Renamed(d, "column", t, c) ELSE name \in {Stem(c), c}

LEMMA RelationNames ==
  ASSUME NEW s, NEW d, NEW t, NEW taken
  PROVE  LET names == relation_names(s, d, t, taken)
         IN /\ DOMAIN names = {c \in DOMAIN relations(s, d, t) : \E n \in 1..Len(ColumnOrder) : ColumnOrder[n] = c}
            /\ \A c \in DOMAIN names : NameOf(s, d, t, c, names[c])
<1>1. Len(ColumnOrder) \in Nat
  BY RailsConstants
<1>2. PICK g : /\ g = Claims(s, d, t, taken, Len(ColumnOrder), g)
               /\ relation_names(s, d, t, taken) = g[Len(ColumnOrder)]
  BY NamesAreClaims
<1>3. \A k \in 0..Len(ColumnOrder) :
        g[k] = IF k = 0 THEN <<>> ELSE claim(s, d, t, taken, g[k - 1], ColumnOrder[k])
  BY <1>2 DEF Claims
<1> DEFINE Good(k) == /\ DOMAIN g[k] = {c \in DOMAIN relations(s, d, t) : \E n \in 1..k : ColumnOrder[n] = c}
                      /\ \A c \in DOMAIN g[k] : NameOf(s, d, t, c, g[k][c])
           S == {k \in 0..Len(ColumnOrder) : ~Good(k)}
<1> SUFFICES ASSUME S # {} PROVE FALSE
  BY <1>1, <1>2
<1>4. PICK m \in S : \A k \in S : ~(k < m)
  <2>1. S \subseteq Nat
    BY <1>1
  <2> HIDE DEF S
  <2>2. \E x \in S : \A y \in S : <<y, x>> \notin OpToRel(<, Nat)
    BY <2>1, WFMin, NatLessThanWellFounded, Zenon
  <2> QED
    BY <2>1, <2>2, Zenon DEF OpToRel
<1>5. m \in 0..Len(ColumnOrder) /\ ~Good(m)
  OBVIOUS
<1>6. CASE m = 0
  <2>1. g[0] = <<>>
    BY <1>1, <1>3
  <2>2. DOMAIN g[0] = {}
    BY <2>1
  <2>3. Good(0)
    BY <2>2
  <2> QED
    BY <1>5, <1>6, <2>3
<1>7. CASE m # 0
  <2>1. m - 1 \in 0..Len(ColumnOrder) /\ m - 1 < m
    BY <1>1, <1>5, <1>7
  <2>2. Good(m - 1)
    BY <1>4, <2>1
  <2> DEFINE b == ColumnOrder[m]
             rel == DOMAIN relations(s, d, t)
             h == g[m - 1]
  <2>3. g[m] = claim(s, d, t, taken, h, b)
    BY <1>3, <1>5, <1>7
  <2>4. {c \in rel : \E n \in 1..m : ColumnOrder[n] = c}
          = {c \in rel : \E n \in 1..(m - 1) : ColumnOrder[n] = c} \cup (rel \cap {b})
    <3>1. \A n : n \in 1..m <=> n \in 1..(m - 1) \/ n = m
      BY <1>1, <1>5, <1>7
    <3> QED
      BY <3>1
  <2> HIDE DEF b, rel, h
  <2>5. CASE b \notin rel
    <3>1. g[m] = h
      BY <2>3, <2>5 DEF claim, rel
    <3> QED
      BY <1>5, <2>2, <2>4, <2>5, <3>1 DEF h, rel
  <2>6. CASE b \in rel
    <3> DEFINE held == taken \cup {Key(h[x]) : x \in DOMAIN h}
    <3>1. g[m] = [x \in DOMAIN h \cup {b} |-> IF x \in DOMAIN h THEN h[x] ELSE relation_name(s, d, t, held, b)]
      BY <2>3, <2>6 DEF claim, rel
    <3>2. NameOf(s, d, t, b, relation_name(s, d, t, held, b))
      BY DEF NameOf, relation_name
    <3> HIDE DEF held
    <3>3. DOMAIN g[m] = {c \in rel : \E n \in 1..m : ColumnOrder[n] = c}
      BY <2>2, <2>4, <2>6, <3>1 DEF h, rel
    <3>4. \A c \in DOMAIN g[m] : NameOf(s, d, t, c, g[m][c])
      BY <2>2, <3>1, <3>2 DEF h
    <3> QED
      BY <1>5, <3>3, <3>4 DEF rel
  <2> QED
    BY <2>5, <2>6
<1> QED
  BY <1>6, <1>7

-------------------------------------------------------------------------------
\* What a finding is about is the first part of its id.
LEMMA About ==
  ASSUME NEW s, NEW x
  PROVE  /\ x \in association_findings(s) => x.id[1] = "association"
         /\ x \in foreign_key_findings(s) => (x.id[1] = "fk" /\ x.id[4] # "cascade_vs_restrict") \/ x.id[1] = "schema"
         /\ x \in cascade_contradiction_findings(s) => x.id[1] = "fk"
         /\ x \in dependent_findings(s) => x.id[1] = "model" /\ x.id[3] = "dependent"
         /\ x \in column_findings(s) => x.id[1] = "column"
         /\ x \in attachment_findings(s) => x.id[1] = "attachment"
         /\ x \in table_findings(s) => x.id[1] \in {"table", "auth"} \/ (x.id[1] = "model" /\ x.id[3] = "sti")
<1>1. x \in association_findings(s) => x.id[1] = "association"
  BY DEF association_findings, Finding
<1>2. x \in foreign_key_findings(s) => (x.id[1] = "fk" /\ x.id[4] # "cascade_vs_restrict") \/ x.id[1] = "schema"
  BY DEF foreign_key_findings, Finding
<1>3. x \in cascade_contradiction_findings(s) => x.id[1] = "fk"
  <2> SUFFICES ASSUME x \in cascade_contradiction_findings(s) PROVE x.id[1] = "fk"
    OBVIOUS
  <2>1. \E k : x = Finding(<<"fk", k.table, k.column, "cascade_vs_restrict">>, {"cascade", "hook", "omit"})
    BY Zenon DEF cascade_contradiction_findings
  <2> QED
    BY <2>1 DEF Finding
<1>4. x \in dependent_findings(s) => x.id[1] = "model" /\ x.id[3] = "dependent"
  BY DEF dependent_findings, Finding
<1>5. x \in column_findings(s) => x.id[1] = "column"
  BY DEF column_findings, Finding
<1>6. x \in attachment_findings(s) => x.id[1] = "attachment"
  <2> SUFFICES ASSUME NEW at \in s.attachments, x \in findings_of_attachment(s, at[1], at[2])
               PROVE  x.id[1] = "attachment"
    BY Zenon DEF attachment_findings
  <2> DEFINE found(suffix) == Finding(<<"attachment", at[1], at[2], suffix>>, {"rename", "omit"})
  <2>1. x = found("identifier") \/ x = found("collision") \/ x = found("reserved")
    <3> HIDE DEF found
    <3> QED
      BY DEF findings_of_attachment, found
  <2> QED
    BY <2>1 DEF Finding
<1>7. x \in table_findings(s) => x.id[1] \in {"table", "auth"} \/ (x.id[1] = "model" /\ x.id[3] = "sti")
  BY DEF table_findings, Finding
<1> QED
  BY <1>1, <1>2, <1>3, <1>4, <1>5, <1>6, <1>7

\* Of what is decided there is a finding, which offers what was chosen.
LEMMA Decided ==
  ASSUME NEW s, NEW d, all_decided(s, d), NEW id \in DOMAIN d
  PROVE  \E x \in build_findings(s) : x.id = id /\ d[id].choice \in x.choices
<1>1. PICK x \in build_findings(s) : x.id = id
  BY DEF all_decided
<1>2. d[x.id] \in AnswersTo(x)
  BY DEF all_decided
<1> QED
  BY <1>1, <1>2 DEF AnswersTo

\* A promoted association had no foreign key, and a column.
LEMMA Promoted ==
  ASSUME NEW s, NEW d, all_decided(s, d), NEW m, NEW n, <<"association", m, n, "nofk">> \in DOMAIN d
  PROVE  \E a \in s.assocs : a.model = m /\ a.name = n /\ bearable(a) /\ a.column \in s.columns[TableOf(s, a.model)]
<1> DEFINE id == <<"association", m, n, "nofk">>
<1>1. id[1] = "association" /\ id[2] = m /\ id[3] = n /\ id[4] = "nofk"
  OBVIOUS
<1>2. PICK x \in build_findings(s) : x.id = id
  BY Decided
<1> HIDE DEF id
<1>3. x \in association_findings(s)
  BY <1>1, <1>2, About DEF build_findings
<1>4. \/ \E a \in s.assocs : x.id = <<"association", a.model, a.name, "polymorphic">>
      \/ \E a \in s.assocs : /\ x.id = <<"association", a.model, a.name, "nofk">>
                             /\ bearable(a) /\ a.column \in s.columns[TableOf(s, a.model)]
  BY <1>3 DEF association_findings, Finding
<1> QED
  BY <1>1, <1>2, <1>4

\* A model that cascades has an association that can.
LEMMA CascadesChosen ==
  ASSUME NEW s, NEW d, all_decided(s, d), NEW m, Chose(d, <<"model", m, "dependent">>, "cascade")
  PROVE  \E a \in s.assocs : a.model = m /\ honourable(s, a)
<1> DEFINE id == <<"model", m, "dependent">>
<1>1. id[1] = "model" /\ id[2] = m /\ id[3] = "dependent"
  OBVIOUS
<1>2. PICK x \in build_findings(s) : x.id = id /\ "cascade" \in x.choices
  BY Decided DEF Chose
<1> HIDE DEF id
<1>3. x \in dependent_findings(s)
  BY <1>1, <1>2, About DEF build_findings
<1>4. PICK n \in s.models :
        x = Finding(<<"model", n.name, "dependent">>,
                    IF \E a \in s.assocs : a.model = n.name /\ honourable(s, a)
                    THEN {"hook", "cascade", "omit"} ELSE {"hook", "omit"})
  BY <1>3 DEF dependent_findings
<1>5. x.id = <<"model", n.name, "dependent">>
      /\ (x.choices = IF \E a \in s.assocs : a.model = n.name /\ honourable(s, a)
                      THEN {"hook", "cascade", "omit"} ELSE {"hook", "omit"})
  BY <1>4 DEF Finding
<1>6. n.name = m
  BY <1>1, <1>2, <1>5
<1> QED
  BY <1>2, <1>5, <1>6

\* The refusal that a cascade is chosen over is of a foreign key that cascades.
LEMMA OverRefusal ==
  ASSUME NEW s, NEW d, all_decided(s, d), NEW t, NEW c, <<"fk", t, c, "cascade_vs_restrict">> \in DOMAIN d
  PROVE  \E k \in fks(s) : k.table = t /\ k.column = c /\ k.on_delete = "cascade"
<1> DEFINE id == <<"fk", t, c, "cascade_vs_restrict">>
<1>1. id[1] = "fk" /\ id[2] = t /\ id[3] = c /\ id[4] = "cascade_vs_restrict"
  OBVIOUS
<1>2. PICK x \in build_findings(s) : x.id = id
  BY Decided
<1> HIDE DEF id
<1>3. x \in cascade_contradiction_findings(s)
  BY <1>1, <1>2, About DEF build_findings
<1>4. PICK k \in fks(s) : /\ x = Finding(<<"fk", k.table, k.column, "cascade_vs_restrict">>, {"cascade", "hook", "omit"})
                         /\ k.on_delete = "cascade"
  BY <1>3, Zenon DEF cascade_contradiction_findings
<1>5. x.id = <<"fk", k.table, k.column, "cascade_vs_restrict">>
  BY <1>4 DEF Finding
<1> QED
  BY <1>1, <1>2, <1>4, <1>5

\* A column with an unusable name is decided about.
LEMMA UnusableColumn ==
  ASSUME NEW s, NEW d, all_decided(s, d), NEW t \in TablesOf(s), NEW c \in s.columns[t],
         c \notin {"id"} \cup Timestamps, ~IsIdentifier(c)
  PROVE  HasNewName(d, t, c) \/ <<t, c>> \in omitted_columns(d)
<1> DEFINE id == <<"column", t, c, "identifier">>
           x == Finding(id, {"rename", "omit"})
<1>1. x \in build_findings(s)
  <2>1. x \in column_findings(s)
    BY DEF column_findings
  <2> QED
    BY <2>1 DEF build_findings
<1>2. x.id = id /\ x.choices = {"rename", "omit"}
  BY DEF Finding
<1>3. Len(id) = 4 /\ id[1] = "column" /\ id[2] = t /\ id[3] = c
  OBVIOUS
<1> HIDE DEF x, id
<1>4. id \in DOMAIN d /\ d[id].choice \in {"rename", "omit"}
  BY <1>1, <1>2 DEF all_decided, AnswersTo
<1>5. id \in Of(d, "column", 4)
  BY <1>3, <1>4 DEF Of
<1>6. d[id].choice = "omit" => <<t, c>> \in omitted_columns(d)
  BY <1>3, <1>5 DEF omitted_columns
<1>7. d[id].choice = "rename" => <<t, c, d[id].to>> \in renamed(d, "column")
  BY <1>3, <1>5 DEF renamed
<1> QED
  BY <1>4, <1>6, <1>7 DEF HasNewName

\* And so is such an attachment.
LEMMA UnusableAttachment ==
  ASSUME NEW s, NEW d, all_decided(s, d), NEW at \in s.attachments, ~IsIdentifier(at[2])
  PROVE  \/ \E r \in renamed(d, "attachment") : r[1] = at[1] /\ r[2] = at[2]
         \/ <<at[1], at[2]>> \in omitted_attachments(d)
<1> DEFINE id == <<"attachment", at[1], at[2], "identifier">>
           x == Finding(id, {"rename", "omit"})
<1>1. x \in build_findings(s)
  <2>1. x \in findings_of_attachment(s, at[1], at[2])
    BY DEF findings_of_attachment
  <2>2. x \in attachment_findings(s)
    BY <2>1 DEF attachment_findings
  <2> QED
    BY <2>2 DEF build_findings
<1>2. x.id = id /\ x.choices = {"rename", "omit"}
  BY DEF Finding
<1>3. Len(id) = 4 /\ id[1] = "attachment" /\ id[2] = at[1] /\ id[3] = at[2]
  OBVIOUS
<1> HIDE DEF x, id
<1>4. id \in DOMAIN d /\ d[id].choice \in {"rename", "omit"}
  BY <1>1, <1>2 DEF all_decided, AnswersTo
<1>5. id \in Of(d, "attachment", 4)
  BY <1>3, <1>4 DEF Of
<1>6. d[id].choice = "omit" => <<at[1], at[2]>> \in omitted_attachments(d)
  BY <1>3, <1>5 DEF omitted_attachments
<1>7. d[id].choice = "rename" => <<at[1], at[2], d[id].to>> \in renamed(d, "attachment")
  BY <1>3, <1>5 DEF renamed
<1> QED
  BY <1>4, <1>6, <1>7

-------------------------------------------------------------------------------
\* The tables that stay, and the fields they are given.
Kept(s, d) == TablesOf(s) \ (omitted_tables(s, d) \cup external_auth_tables(s, d))
Given(s, d) == UNION {fields(s, d, t) : t \in Kept(s, d)}

\* What has been checked of decisions that are not refused.
Sound(s, d) ==
  /\ SourceFormed(s) /\ all_decided(s, d)
  /\ ~inert(s, d) /\ ~rename_refused(s, d)
  /\ \A t \in Kept(s, d) : ~claims_refused(s, t, {f \in Given(s, d) : f.table = t})

\* An outcome with tables is one of decisions that passed every check.
LEMMA Outcome ==
  ASSUME NEW s \in Sources, NEW d, all_decided(s, d), map_tables(s, d).tables # {}
  PROVE  /\ Sound(s, d)
         /\ map_tables(s, d).tables = Kept(s, d)
         /\ map_tables(s, d).fields = Given(s, d)
<1>1. RefusedMap.tables = {}
  BY DEF RefusedMap
<1>2. /\ ~(contradictory(d) \/ promotion_refused(s, d))
      /\ ~(inert(s, d) \/ rename_refused(s, d))
      /\ ~\E t \in Kept(s, d) : claims_refused(s, t, {f \in Given(s, d) : f.table = t})
      /\ map_tables(s, d) = [tables |-> Kept(s, d), fields |-> Given(s, d), refused |-> FALSE]
  BY <1>1, Zenon DEF map_tables, Kept, Given
<1>3. SourceFormed(s)
  BY RailsConstants
<1>4. Sound(s, d)
  BY <1>2, <1>3, Zenon DEF Sound
<1>5. map_tables(s, d).tables = Kept(s, d) /\ map_tables(s, d).fields = Given(s, d)
  BY <1>2
<1> QED
  BY <1>4, <1>5

\* A relation is on a column that bears one and that is not skipped.
LEMMA RelationColumns ==
  ASSUME NEW s, NEW d, Sound(s, d), NEW t \in Kept(s, d), NEW c \in DOMAIN relations(s, d, t)
  PROVE  c \in relation_bearing_columns(s, t) /\ c \notin skipped(s, d, t)
<1>1. t \in TablesOf(s) /\ t \notin omitted_tables(s, d)
  BY DEF Kept
<1>2. DOMAIN relations(s, d, t)
        = {fk.column : fk \in relation_keys(s, d, t)} \cup {r[2] : r \in {x \in declared_relations(s, d) : x[1] = t}}
  BY DEF relations
<1>3. CASE \E fk \in relation_keys(s, d, t) : c = fk.column
  <2>1. PICK fk \in relation_keys(s, d, t) : c = fk.column
    BY <1>3
  <2>2. fk \in fks(s) /\ fk.table = t /\ fk.column \notin skipped(s, d, t)
    BY DEF relation_keys
  <2>3. fk.column \in s.columns[t]
    BY <1>1, <2>2 DEF Sound, SourceFormed
  <2> QED
    BY <2>1, <2>2, <2>3 DEF relation_bearing_columns
<1>4. CASE \E r \in declared_relations(s, d) : r[1] = t /\ c = r[2]
  <2>1. PICK r \in declared_relations(s, d) : r[1] = t /\ c = r[2]
    BY <1>4
  <2>2. PICK a \in s.assocs : /\ r = <<TableOf(s, a.model), a.column, a.table>>
                              /\ <<"association", a.model, a.name, "nofk">> \in DOMAIN d
    BY DEF declared_relations, Chose
  <2>3. PICK b \in s.assocs : b.model = a.model /\ b.name = a.name /\ bearable(b) /\ b.column \in s.columns[TableOf(s, b.model)]
    BY <2>2, Promoted DEF Sound
  <2>4. a = b
    BY <2>3 DEF Sound, SourceFormed
  <2>5. TableOf(s, a.model) = t /\ a.column = c
    BY <2>1, <2>2
  <2>6. c \in relation_bearing_columns(s, t)
    BY <2>3, <2>4, <2>5 DEF relation_bearing_columns
  <2>7. <<r[1], r[2]>> \notin {p \in dropped_columns(s, d) : p[1] \notin omitted_tables(s, d)} /\ r[2] \notin unmigratable(s, r[1])
    <3>1. r[1] \notin omitted_tables(s, d)
      BY <1>1, <2>1
    <3> QED
      BY <3>1, Zenon DEF Sound, inert
  <2>8. c \notin skipped(s, d, t)
    BY <1>1, <2>1, <2>7 DEF skipped
  <2> QED
    BY <2>6, <2>8
<1> QED
  BY <1>2, <1>3, <1>4

\* The field a relation makes, under some name.
RelationField(s, d, t, c, name) ==
  MappedField(t, "column", c, name, "relation", relations(s, d, t)[c], cascades(s, d, t, c))

\* The fields of a table: its scalars, its files, and one for each of its relations.
LEMMA FieldsOf ==
  ASSUME NEW s, NEW d, Sound(s, d), NEW t \in Kept(s, d)
  PROVE  \E names :
           /\ DOMAIN names = DOMAIN relations(s, d, t)
           /\ \A c \in DOMAIN names : NameOf(s, d, t, c, names[c])
           /\ fields(s, d, t) = (scalar_fields(s, d, t) \cup file_fields(s, d, t))
                \cup {RelationField(s, d, t, c, names[c]) : c \in DOMAIN relations(s, d, t)}
<1> DEFINE first == scalar_fields(s, d, t) \cup file_fields(s, d, t)
           taken == {Key(f.name) : f \in first}
           names == relation_names(s, d, t, taken)
<1>1. fields(s, d, t) = first \cup {RelationField(s, d, t, c, names[c]) : c \in DOMAIN names}
  BY Zenon DEF fields, RelationField
<1> HIDE DEF taken
<1>2. /\ DOMAIN names = {c \in DOMAIN relations(s, d, t) : \E n \in 1..Len(ColumnOrder) : ColumnOrder[n] = c}
      /\ \A c \in DOMAIN names : NameOf(s, d, t, c, names[c])
  BY RelationNames
<1>3. \A c \in DOMAIN relations(s, d, t) : \E n \in 1..Len(ColumnOrder) : ColumnOrder[n] = c
  BY RelationColumns DEF Sound, SourceFormed, Kept
<1>4. DOMAIN names = DOMAIN relations(s, d, t)
  BY <1>2, <1>3
<1> QED
  BY <1>1, <1>2, <1>4

\* What a scalar, a file and a relation are fields of.
ScalarName(s, d, t, c) ==
  LET n == Renamed(d, "column", t, c) IN IF is_auth(s, t) /\ Key(n) \in AuthMapped THEN Key(n) ELSE n

LEMMA Scalar ==
  ASSUME NEW s, NEW d, NEW t, NEW f \in scalar_fields(s, d, t)
  PROVE  \E c \in s.columns[t] :
           /\ c \notin skipped(s, d, t) /\ c \notin DOMAIN relations(s, d, t)
           /\ f.table = t /\ f.kind = "column" /\ f.from = c /\ ~f.cascade
           /\ f.name = ScalarName(s, d, t, c)
<1>1. scalar_fields(s, d, t) = {MappedField(t, "column", c, ScalarName(s, d, t, c), ColumnType(c), Blank, FALSE) :
                                  c \in s.columns[t] \ (skipped(s, d, t) \cup DOMAIN relations(s, d, t))}
  BY Zenon DEF scalar_fields, ScalarName
<1>2. PICK c \in s.columns[t] \ (skipped(s, d, t) \cup DOMAIN relations(s, d, t)) :
        f = MappedField(t, "column", c, ScalarName(s, d, t, c), ColumnType(c), Blank, FALSE)
  BY <1>1
<1> QED
  BY <1>2 DEF MappedField

LEMMA FileField ==
  ASSUME NEW s, NEW d, NEW t, NEW f \in file_fields(s, d, t)
  PROVE  \E a \in s.attachments :
           /\ a \notin omitted_attachments(d) /\ a[1] = t
           /\ f.table = t /\ f.kind = "attachment" /\ f.from = a[2] /\ ~f.cascade
           /\ f.name = Renamed(d, "attachment", t, a[2])
<1>1. PICK a \in {b \in s.attachments \ omitted_attachments(d) : b[1] = t} :
        f = MappedField(t, "attachment", a[2], Renamed(d, "attachment", t, a[2]), "file", Blank, FALSE)
  BY DEF file_fields
<1> QED
  BY <1>1 DEF MappedField

LEMMA Relation ==
  ASSUME NEW s, NEW d, NEW t, NEW c, NEW name
  PROVE  LET f == RelationField(s, d, t, c, name)
         IN /\ f.table = t /\ f.kind = "column" /\ f.from = c /\ f.name = name /\ f.type = "relation"
            /\ f.cascade = cascades(s, d, t, c)
BY DEF RelationField, MappedField

\* All that is given belongs to the table it is given to.
LEMMA GivenTo ==
  ASSUME NEW s, NEW d, Sound(s, d), NEW f
  PROVE  f \in Given(s, d) <=> f.table \in Kept(s, d) /\ f \in fields(s, d, f.table)
<1>1. ASSUME NEW t \in Kept(s, d), f \in fields(s, d, t) PROVE f.table = t
  <2>1. PICK names : fields(s, d, t) = (scalar_fields(s, d, t) \cup file_fields(s, d, t))
                       \cup {RelationField(s, d, t, c, names[c]) : c \in DOMAIN relations(s, d, t)}
    BY FieldsOf
  <2>2. CASE f \in scalar_fields(s, d, t)
    BY <2>2, Scalar
  <2>3. CASE f \in file_fields(s, d, t)
    BY <2>3, FileField
  <2>4. CASE \E c \in DOMAIN relations(s, d, t) : f = RelationField(s, d, t, c, names[c])
    BY <2>4, Relation
  <2> QED
    BY <1>1, <2>1, <2>2, <2>3, <2>4
<1>2. f \in Given(s, d) <=> \E t \in Kept(s, d) : f \in fields(s, d, t)
  BY Zenon DEF Given
<1> QED
  BY <1>1, <1>2

\* Every column makes one field, and none that is skipped makes any.
LEMMA ColumnOnce ==
  ASSUME NEW s, NEW d, Sound(s, d), NEW t \in Kept(s, d), NEW c \in s.columns[t]
  PROVE  Cardinality({f \in Given(s, d) : f.table = t /\ f.kind = "column" /\ f.from = c})
           = IF c \in skipped(s, d, t) THEN 0 ELSE 1
<1> DEFINE Made == {f \in Given(s, d) : f.table = t /\ f.kind = "column" /\ f.from = c}
<1>1. Made = {f \in fields(s, d, t) : f.table = t /\ f.kind = "column" /\ f.from = c}
  BY GivenTo
<1>2. PICK names : fields(s, d, t) = (scalar_fields(s, d, t) \cup file_fields(s, d, t))
                     \cup {RelationField(s, d, t, x, names[x]) : x \in DOMAIN relations(s, d, t)}
  BY FieldsOf
<1>3. ASSUME NEW f \in Made
      PROVE  \/ c \in DOMAIN relations(s, d, t) /\ f = RelationField(s, d, t, c, names[c])
             \/ c \notin DOMAIN relations(s, d, t) /\ c \notin skipped(s, d, t) /\ f \in scalar_fields(s, d, t)
  <2>1. f \in fields(s, d, t) /\ f.kind = "column" /\ f.from = c
    BY <1>1
  <2>2. CASE f \in scalar_fields(s, d, t)
    BY <2>1, <2>2, Scalar
  <2>3. CASE f \in file_fields(s, d, t)
    BY <2>1, <2>3, FileField
  <2>4. CASE \E x \in DOMAIN relations(s, d, t) : f = RelationField(s, d, t, x, names[x])
    BY <2>1, <2>4, Relation
  <2> QED
    BY <1>2, <2>1, <2>2, <2>3, <2>4
<1>4. CASE c \in DOMAIN relations(s, d, t)
  <2>1. c \notin skipped(s, d, t)
    BY <1>4, RelationColumns
  <2>2. RelationField(s, d, t, c, names[c]) \in Made
    BY <1>1, <1>2, <1>4, Relation
  <2>3. Made = {RelationField(s, d, t, c, names[c])}
    BY <1>3, <1>4, <2>2
  <2> QED
    BY <2>1, <2>3, FS_Singleton
<1>5. CASE c \notin DOMAIN relations(s, d, t)
  <2>1. CASE c \in skipped(s, d, t)
    <3>1. Made = {}
      BY <1>3, <1>5, <2>1
    <3> QED
      BY <2>1, <3>1, FS_EmptySet
  <2>2. CASE c \notin skipped(s, d, t)
    <3> DEFINE plain(x) == MappedField(t, "column", x, ScalarName(s, d, t, x), ColumnType(x), Blank, FALSE)
    <3>1. scalar_fields(s, d, t) = {plain(x) : x \in s.columns[t] \ (skipped(s, d, t) \cup DOMAIN relations(s, d, t))}
      BY Zenon DEF scalar_fields, ScalarName
    <3>2. \A x : plain(x).table = t /\ plain(x).kind = "column" /\ plain(x).from = x
      BY DEF MappedField
    <3> HIDE DEF plain
    <3>3. plain(c) \in scalar_fields(s, d, t)
      BY <1>5, <2>2, <3>1
    <3>4. plain(c) \in Made
      BY <1>1, <1>2, <3>2, <3>3
    <3>5. \A f \in Made : f \in scalar_fields(s, d, t) /\ f.from = c
      BY <1>3, <1>5
    <3>6. Made = {plain(c)}
      BY <3>1, <3>2, <3>4, <3>5
    <3> QED
      BY <2>2, <3>6, FS_Singleton
  <2> QED
    BY <2>1, <2>2
<1> QED
  BY <1>4, <1>5

\* A new name that is not refused is usable.
LEMMA NewNames ==
  ASSUME NEW s, NEW d, Sound(s, d), NEW t, NEW x
  PROVE  /\ HasNewName(d, t, x) => IsIdentifier(Renamed(d, "column", t, x))
         /\ (\E r \in renamed(d, "attachment") : r[1] = t /\ r[2] = x) => IsIdentifier(Renamed(d, "attachment", t, x))
<1>1. /\ \A r \in renamed(d, "column") : IsIdentifier(r[3])
      /\ \A r \in renamed(d, "attachment") : IsIdentifier(r[3])
  BY Zenon DEF Sound, rename_refused
<1> QED
  BY <1>1 DEF HasNewName, Renamed

\* A column that is not skipped has a usable name, or is given one.
LEMMA ColumnNamed ==
  ASSUME NEW s, NEW d, Sound(s, d), NEW t \in Kept(s, d), NEW c \in s.columns[t], c \notin skipped(s, d, t),
         ~HasNewName(d, t, c)
  PROVE  IsIdentifier(c)
<1>1. c \notin {"id"} \cup Timestamps /\ <<t, c>> \notin omitted_columns(d)
  BY DEF skipped, unmigratable, dropped_columns
<1> QED
  BY <1>1, UnusableColumn DEF Kept, Sound

\* What the schema declares has a usable name, and none of the engine's.
LEMMA NamesUsable ==
  ASSUME NEW s, NEW d, Sound(s, d), NEW t \in Kept(s, d), NEW f \in Given(s, d), f.table = t,
         ~(is_auth(s, t) /\ Key(f.name) \in AuthMapped),
         \A k \in AuthMapped : Key(k) = k
  PROVE  IsIdentifier(f.name) /\ Key(f.name) \notin RESERVED_FIELD_NAMES
<1>1. Key(f.name) \notin RESERVED_FIELD_NAMES
  <2>1. ~reserved_here(f.name, is_auth(s, t), f.type \notin {"relation", "file"}, f.type)
    <3>1. f \in {g \in Given(s, d) : g.table = t}
      OBVIOUS
    <3> QED
      BY <3>1, Zenon DEF Sound, claims_refused
  <2> QED
    BY <2>1, Zenon DEF reserved_here
<1>2. IsIdentifier(f.name)
  <2>1. PICK names :
          /\ DOMAIN names = DOMAIN relations(s, d, t)
          /\ \A c \in DOMAIN names : NameOf(s, d, t, c, names[c])
          /\ fields(s, d, t) = (scalar_fields(s, d, t) \cup file_fields(s, d, t))
               \cup {RelationField(s, d, t, c, names[c]) : c \in DOMAIN relations(s, d, t)}
    BY FieldsOf
  <2>2. CASE f \in scalar_fields(s, d, t)
    <3>1. PICK c \in s.columns[t] :
            /\ c \notin skipped(s, d, t)
            /\ f.name = ScalarName(s, d, t, c)
      BY <2>2, Scalar
    <3>2. f.name = Renamed(d, "column", t, c)
      BY <3>1 DEF ScalarName
    <3>3. CASE HasNewName(d, t, c)
      BY <3>2, <3>3, NewNames
    <3>4. CASE ~HasNewName(d, t, c)
      <4>1. Renamed(d, "column", t, c) = c
        BY <3>4 DEF HasNewName, Renamed
      <4> QED
        BY <3>1, <3>2, <3>4, <4>1, ColumnNamed
    <3> QED
      BY <3>3, <3>4
  <2>3. CASE f \in file_fields(s, d, t)
    <3>1. PICK a \in s.attachments : /\ a \notin omitted_attachments(d) /\ a[1] = t
                                     /\ f.name = Renamed(d, "attachment", t, a[2])
      BY <2>3, FileField
    <3>2. CASE \E r \in renamed(d, "attachment") : r[1] = t /\ r[2] = a[2]
      BY <3>1, <3>2, NewNames
    <3>3. CASE ~\E r \in renamed(d, "attachment") : r[1] = t /\ r[2] = a[2]
      <4>1. f.name = a[2]
        BY <3>1, <3>3 DEF Renamed
      <4>2. <<a[1], a[2]>> = a
        BY <3>1 DEF Sound, SourceFormed
      <4> QED
        BY <3>1, <3>3, <4>1, <4>2, UnusableAttachment DEF Sound
    <3> QED
      BY <3>2, <3>3
  <2>4. CASE \E c \in DOMAIN relations(s, d, t) : f = RelationField(s, d, t, c, names[c])
    <3>1. PICK c \in DOMAIN relations(s, d, t) : f = RelationField(s, d, t, c, names[c])
      BY <2>4
    <3>2. f.name = names[c] /\ NameOf(s, d, t, c, names[c])
      BY <2>1, <3>1, Relation
    <3>3. c \in relation_bearing_columns(s, t) /\ c \notin skipped(s, d, t)
      BY RelationColumns
    <3>4. CASE HasNewName(d, t, c)
      BY <3>2, <3>4, NewNames DEF NameOf
    <3>5. CASE ~HasNewName(d, t, c)
      <4>1. c \in s.columns[t] /\ t \in TablesOf(s)
        BY <3>3 DEF relation_bearing_columns, Kept
      <4>2. IsIdentifier(c)
        BY <3>3, <3>5, <4>1, ColumnNamed
      <4>3. IsIdentifier(Stem(c))
        BY <3>3, <4>1, <4>2 DEF Sound, SourceFormed
      <4> QED
        BY <3>2, <3>5, <4>2, <4>3 DEF NameOf
    <3> QED
      BY <3>4, <3>5
  <2>5. f \in fields(s, d, t)
    BY GivenTo
  <2> QED
    BY <2>1, <2>2, <2>3, <2>4, <2>5
<1> QED
  BY <1>1, <1>2

\* A relation makes its field.
LEMMA RelationGiven ==
  ASSUME NEW s, NEW d, Sound(s, d), NEW t \in Kept(s, d), NEW c \in DOMAIN relations(s, d, t)
  PROVE  \E f \in Given(s, d) : /\ f.table = t /\ f.from = c /\ f.type = "relation"
                                /\ f.cascade = cascades(s, d, t, c)
<1>1. PICK names : fields(s, d, t) = (scalar_fields(s, d, t) \cup file_fields(s, d, t))
                     \cup {RelationField(s, d, t, x, names[x]) : x \in DOMAIN relations(s, d, t)}
  BY FieldsOf
<1> DEFINE f == RelationField(s, d, t, c, names[c])
<1>2. f \in fields(s, d, t)
  BY <1>1
<1>3. /\ f.table = t /\ f.from = c /\ f.type = "relation"
      /\ f.cascade = cascades(s, d, t, c)
  BY Relation
<1> HIDE DEF f
<1>4. f \in Given(s, d)
  BY <1>2, <1>3, GivenTo
<1> QED
  BY <1>3, <1>4

\* A foreign key whose column nothing takes away is a relation.
LEMMA KeyRelates ==
  ASSUME NEW s, NEW d, NEW t, NEW c, NEW owner, ~cascade_blocked(s, d, t, c, owner)
  PROVE  /\ t \in TablesOf(s) /\ t \notin omitted_tables(s, d)
         /\ ~action_dropped(d, t, c)
         /\ \A k \in fks(s) : k.table = t /\ k.column = c =>
              k \in relation_keys(s, d, t) /\ c \in DOMAIN relations(s, d, t)
         /\ \E k \in fks(s) : k.table = t /\ k.column = c
<1>1. /\ t \notin omitted_tables(s, d) /\ relation_emitted(s, t, c, owner) /\ ~fk_untrusted(d)
      /\ <<t, c>> \notin dropped_columns(s, d) /\ ~dropped_relation(d, t, c) /\ ~action_dropped(d, t, c)
  BY Zenon DEF cascade_blocked
<1>2. /\ t \in TablesOf(s) /\ c \notin unmigratable(s, t)
      /\ \E k \in fks(s) : k.table = t /\ k.column = c
  BY <1>1 DEF relation_emitted
<1>3. c \notin skipped(s, d, t)
  BY <1>1, <1>2 DEF skipped
<1>4. ASSUME NEW k \in fks(s), k.table = t, k.column = c
      PROVE  k \in relation_keys(s, d, t) /\ c \in DOMAIN relations(s, d, t)
  <2>1. k \in relation_keys(s, d, t)
    BY <1>1, <1>3, <1>4 DEF relation_keys
  <2>2. DOMAIN relations(s, d, t)
          = {fk.column : fk \in relation_keys(s, d, t)} \cup {r[2] : r \in {x \in declared_relations(s, d) : x[1] = t}}
    BY DEF relations
  <2> QED
    BY <1>4, <2>1, <2>2
<1> QED
  BY <1>1, <1>2, <1>4

\* Rows that may not be deleted go with their owner only by choice.
LEMMA RefusalStands ==
  ASSUME NEW s, NEW d, Sound(s, d), NEW f \in Given(s, d), f.cascade, <<f.table, f.from>> \in restrict_protected(s)
  PROVE  Chose(d, <<"fk", f.table, f.from, "cascade_vs_restrict">>, "cascade")
<1> DEFINE t == f.table
<1>1. t \in Kept(s, d) /\ f \in fields(s, d, t)
  BY GivenTo
<1>2. PICK names : fields(s, d, t) = (scalar_fields(s, d, t) \cup file_fields(s, d, t))
                     \cup {RelationField(s, d, t, x, names[x]) : x \in DOMAIN relations(s, d, t)}
  BY <1>1, FieldsOf
<1>3. f \notin scalar_fields(s, d, t) /\ f \notin file_fields(s, d, t)
  BY Scalar, FileField
<1>4. PICK c \in DOMAIN relations(s, d, t) : f = RelationField(s, d, t, c, names[c])
  BY <1>1, <1>2, <1>3
<1>5. f.from = c /\ cascades(s, d, t, c)
  BY <1>4, Relation
<1>6. <<t, c>> \notin cascade_decisions(s, d)
  BY <1>5 DEF cascade_decisions
<1> QED
  BY <1>5, <1>6, Zenon DEF cascades

\* A promoted association is a relation.
LEMMA PromotionActs ==
  ASSUME NEW s, NEW d, Sound(s, d), NEW r \in declared_relations(s, d), r[1] \in Kept(s, d)
  PROVE  \E f \in Given(s, d) : f.table = r[1] /\ f.from = r[2] /\ f.type = "relation"
<1>1. r[2] \in DOMAIN relations(s, d, r[1])
  BY DEF relations
<1> QED
  BY <1>1, RelationGiven

\* A model that is decided to cascade has a relation that does.
LEMMA CascadeActs ==
  ASSUME NEW s, NEW d, Sound(s, d), NEW m \in s.models, Chose(d, <<"model", m.name, "dependent">>, "cascade")
  PROVE  \E p \in cascadable_pairs(s, m.name) :
           \/ p[1] \in external_auth_tables(s, d)
           \/ \E f \in Given(s, d) : f.table = p[1] /\ f.from = p[2] /\ f.cascade
<1>1. cascadable_pairs(s, m.name) # {}
  <2>1. PICK a \in s.assocs : a.model = m.name /\ honourable(s, a)
    BY CascadesChosen DEF Sound
  <2>2. PairOf(a) \in cascadable_pairs(s, m.name)
    BY <2>1 DEF cascadable_pairs, honourable
  <2> QED
    BY <2>2
<1>2. PICK p \in cascadable_pairs(s, m.name) :
        p \notin restrict_protected(s) /\ ~cascade_blocked(s, d, p[1], p[2], m.table)
  BY <1>1, Zenon DEF Sound, inert
<1>3. p = <<p[1], p[2]>>
  BY DEF cascadable_pairs, PairOf
<1>4. CASE p[1] \in external_auth_tables(s, d)
  BY <1>4
<1>5. CASE p[1] \notin external_auth_tables(s, d)
  <2>1. p[1] \in Kept(s, d)
    BY <1>2, <1>5, KeyRelates DEF Kept
  <2>2. PICK k \in fks(s) : k.table = p[1] /\ k.column = p[2]
    BY <1>2, KeyRelates
  <2>3. k \in relation_keys(s, d, p[1]) /\ p[2] \in DOMAIN relations(s, d, p[1]) /\ ~action_dropped(d, p[1], p[2])
    BY <1>2, <2>2, KeyRelates
  <2>4. relation_emitted(s, p[1], p[2], m.table)
    BY <1>2, Zenon DEF cascade_blocked
  <2>5. p \in cascade_decisions(s, d)
    BY <1>2, <2>4 DEF cascade_decisions
  <2>6. cascades(s, d, p[1], p[2])
    BY <1>3, <2>2, <2>3, <2>5 DEF cascades
  <2> QED
    BY <2>1, <2>3, <2>6, RelationGiven
<1> QED
  BY <1>4, <1>5

\* A cascade that is kept over a refusal is one.
LEMMA KeptCascadeActs ==
  ASSUME NEW s, NEW d, Sound(s, d), NEW t, NEW c, Chose(d, <<"fk", t, c, "cascade_vs_restrict">>, "cascade")
  PROVE  \/ t \in external_auth_tables(s, d)
         \/ \E f \in Given(s, d) : f.table = t /\ f.from = c /\ f.cascade
<1>1. PICK k \in fks(s) : k.table = t /\ k.column = c /\ k.on_delete = "cascade"
  BY OverRefusal DEF Sound, Chose
<1>2. ~cascade_blocked(s, d, k.table, k.column, k.to)
  BY <1>1, Zenon DEF Sound, inert
<1>3. k \in relation_keys(s, d, t) /\ c \in DOMAIN relations(s, d, t) /\ ~action_dropped(d, t, c)
      /\ t \in TablesOf(s) /\ t \notin omitted_tables(s, d)
  BY <1>1, <1>2, KeyRelates
<1>4. cascades(s, d, t, c)
  BY <1>1, <1>3 DEF cascades
<1> QED
  BY <1>3, <1>4, RelationGiven DEF Kept

-------------------------------------------------------------------------------
(* The tool runs once all is decided, and what it makes stays. *)
MapInv ==
  /\ app \in Sources
  /\ mapped # Undecided => all_decided(app, decisions) /\ mapped = map_tables(app, decisions)

LEMMA MapInvHolds == MappingSpec => []MapInv
<1>1. MappingInit => MapInv
  BY DEF MappingInit, MapInv
<1>2. MapInv /\ [MappingNext]_mvars => MapInv'
  <2> SUFFICES ASSUME MapInv, [MappingNext]_mvars PROVE MapInv'
    OBVIOUS
  <2>1. CASE DecideFinding
    BY <2>1 DEF MapInv, DecideFinding
  <2>2. CASE Convert
    BY <2>2 DEF MapInv, Convert
  <2>3. CASE UNCHANGED mvars
    BY <2>3 DEF MapInv, mvars
  <2> QED
    BY <2>1, <2>2, <2>3 DEF MappingNext
<1> QED
  BY <1>1, <1>2, PTL DEF MappingSpec

\* What is accepted was sound, and is what was kept and given.
LEMMA Accepting ==
  ASSUME MapInv, MapAccepted
  PROVE  /\ Sound(app, decisions)
         /\ mapped.tables = Kept(app, decisions) /\ mapped.fields = Given(app, decisions)
<1>1. mapped # Undecided
  BY DEF MapAccepted, Undecided
<1> QED
  BY <1>1, Outcome DEF MapInv, MapAccepted

(* Whatever an application holds and whatever is decided about it: in the schema that
   is accepted every column makes one field, unless the engine has its value or a
   decision drops it, and the fields have usable names that differ; rows that a model
   refuses to delete go with their owner only where that was chosen; and what was
   decided has come about. *)
THEOREM SourceIsAccountedFor == MappingSpec => []RailsMapped
<1>1. MapInv => RailsMapped
  <2> SUFFICES ASSUME MapInv, MapAccepted PROVE RailsMapped
    BY DEF RailsMapped, EveryColumnOnce, RefusalKept, DecisionsAct
  <2>1. /\ Sound(app, decisions)
        /\ mapped.tables = Kept(app, decisions) /\ mapped.fields = Given(app, decisions)
    BY Accepting
  <2>2. EveryColumnOnce
    <3> SUFFICES ASSUME NEW t \in Kept(app, decisions)
        PROVE
          /\ \A c \in app.columns[t] :
               Cardinality({f \in mapped.fields : f.table = t /\ f.kind = "column" /\ f.from = c})
                 = IF c \in unmigratable(app, t) \/ Dropped(t, c) THEN 0 ELSE 1
          /\ \A f, g \in mapped.fields : f.table = t /\ g.table = t /\ Key(f.name) = Key(g.name) => f = g
          /\ \A f \in schema_fields(app, t) : IsIdentifier(f.name) /\ Key(f.name) \notin RESERVED_FIELD_NAMES
      BY <2>1 DEF EveryColumnOnce
    <3>1. ASSUME NEW c \in app.columns[t]
          PROVE  Cardinality({f \in mapped.fields : f.table = t /\ f.kind = "column" /\ f.from = c})
                   = IF c \in unmigratable(app, t) \/ Dropped(t, c) THEN 0 ELSE 1
      <4>1. c \in skipped(app, decisions, t) <=> c \in unmigratable(app, t) \/ Dropped(t, c)
        BY DEF skipped, Dropped
      <4>2. Cardinality({f \in Given(app, decisions) : f.table = t /\ f.kind = "column" /\ f.from = c})
              = IF c \in skipped(app, decisions, t) THEN 0 ELSE 1
        BY <2>1, ColumnOnce
      <4> QED
        BY <2>1, <4>1, <4>2, Zenon
    <3>2. ASSUME NEW f \in mapped.fields, NEW g \in mapped.fields, f.table = t, g.table = t, Key(f.name) = Key(g.name)
          PROVE  f = g
      <4>1. ~claims_refused(app, t, {x \in Given(app, decisions) : x.table = t})
        BY <2>1, Zenon DEF Sound
      <4>2. /\ f \in {x \in Given(app, decisions) : x.table = t}
            /\ g \in {x \in Given(app, decisions) : x.table = t}
        BY <2>1, <3>2
      <4> QED
        BY <3>2, <4>1, <4>2, Zenon DEF claims_refused
    <3>3. ASSUME NEW f \in schema_fields(app, t)
          PROVE  IsIdentifier(f.name) /\ Key(f.name) \notin RESERVED_FIELD_NAMES
      <4>1. f \in Given(app, decisions) /\ f.table = t /\ ~(is_auth(app, t) /\ Key(f.name) \in AuthMapped)
        BY <2>1 DEF schema_fields
      <4> QED
        BY <2>1, <4>1, NamesUsable, RailsConstants
    <3> QED
      BY <3>1, <3>2, <3>3
  <2>3. RefusalKept
    BY <2>1, RefusalStands DEF RefusalKept
  <2>4. DecisionsAct
    <3>1. \A r \in declared_relations(app, decisions) :
            r[1] \in mapped.tables =>
              \E f \in mapped.fields : f.table = r[1] /\ f.from = r[2] /\ f.type = "relation"
      BY <2>1, PromotionActs
    <3>2. \A m \in app.models :
            Chose(decisions, <<"model", m.name, "dependent">>, "cascade") =>
              \E p \in cascadable_pairs(app, m.name) :
                \/ p[1] \in external_auth_tables(app, decisions)
                \/ \E f \in mapped.fields : f.table = p[1] /\ f.from = p[2] /\ f.cascade
      BY <2>1, CascadeActs
    <3>3. \A fk \in app.fks :
            Chose(decisions, <<"fk", fk.table, fk.column, "cascade_vs_restrict">>, "cascade") =>
              \/ fk.table \in external_auth_tables(app, decisions)
              \/ \E f \in mapped.fields : f.table = fk.table /\ f.from = fk.column /\ f.cascade
      BY <2>1, KeptCascadeActs
    <3> QED
      BY <3>1, <3>2, <3>3, Zenon DEF DecisionsAct
  <2> QED
    BY <2>2, <2>3, <2>4 DEF RailsMapped
<1> QED
  BY <1>1, MapInvHolds, PTL

-----------------------------------------------------------------------------
(* RailsRows: what an attested bundle has.  What was checked before anything was
   written, and what each entry has once its rows are.                         *)
Checked(s) ==
  \A e \in Entries(s) : /\ ~uncoercible(s, e) /\ ~dangling(s, e)
                        /\ ~duplicate_identity(s, e) /\ ~invalid_identity(s, e)
SchemaOf(s) ==
  [c \in {e.collection : e \in Entries(s)} |->
     [fields |-> relaxed(s, EntryOf(s, c)), indexes |-> indexes_for(EntryOf(s, c))]]
Wrote(s, b, e) ==
  /\ e.collection \in DOMAIN b.data
  /\ b.data[e.collection] = RecordsOf(s, e, b.plan)
  /\ \A r \in Rows(s, e) : ~malformed(s, e, r, b.plan) /\ ~unimportable(e, r, b.plan)
  /\ e.separate => e.collection \in b.apart
Filed(s, b) ==
  /\ ~bad_links(s) /\ ~file_plan(s).refused /\ b.plan = file_plan(s).plan
  /\ b.links = [a \in AccountIds(s) |-> links_of(s, a)]

RowsInv ==
  /\ db \in Snapshots
  /\ rowOut = [schema |-> rowOut.schema, plan |-> rowOut.plan, dropped |-> rowOut.dropped,
               data |-> rowOut.data, links |-> rowOut.links, apart |-> rowOut.apart,
               hashes |-> rowOut.hashes]
  /\ rowAt \in 0..(Len(db.mapped) + 1)
  /\ rowStage = "plan" => rowAt = 0
  /\ rowStage = "plan" \/ rowAt >= 1 => Checked(db) /\ rowOut.schema = SchemaOf(db)
  /\ rowAt >= 1 => Filed(db, rowOut)
  /\ \A i \in DOMAIN db.mapped : i < rowAt => Wrote(db, rowOut, db.mapped[i])
  /\ rowOut.hashes => rowAt = Len(db.mapped) + 1

\* An entry is the one of its collection.
LEMMA EntryOfCollection ==
  ASSUME NEW s, SnapshotFormed(s), NEW e \in Entries(s)
  PROVE  EntryOf(s, e.collection) = e
<1>1. \A d \in Entries(s) : d.collection = e.collection => d = e
  BY DEF SnapshotFormed, Entries, ToSet
<1>2. EntryOf(s, e.collection) = CHOOSE d \in Entries(s) : d.collection = e.collection
  BY DEF EntryOf
<1>3. QED
  BY <1>1, <1>2

\* An extraction starts with nothing written.
LEMMA RowsStart == RowsInit => RowsInv
<1> SUFFICES ASSUME RowsInit PROVE RowsInv
  OBVIOUS
<1>1. SnapshotFormed(db)
  BY RowsConstants DEF RowsInit
<1>2. Len(db.mapped) \in Nat /\ DOMAIN db.mapped = 1..Len(db.mapped)
  BY <1>1 DEF SnapshotFormed
<1>3. rowAt = 0 /\ rowStage = "rows" /\ rowOut = NoExtract /\ db \in Snapshots
  BY DEF RowsInit
<1>4. ~rowOut.hashes /\ rowOut = [schema |-> rowOut.schema, plan |-> rowOut.plan, dropped |-> rowOut.dropped,
               data |-> rowOut.data, links |-> rowOut.links, apart |-> rowOut.apart,
               hashes |-> rowOut.hashes]
  BY <1>3 DEF NoExtract
<1>5. QED
  BY <1>2, <1>3, <1>4 DEF RowsInv

\* What was written of an entry stays what it is while other entries are written.
LEMMA WrittenStays ==
  ASSUME NEW s, NEW b, NEW c, NEW e, Wrote(s, b, e),
         c.plan = b.plan, e.collection \in DOMAIN c.data, c.data[e.collection] = b.data[e.collection],
         b.apart \subseteq c.apart
  PROVE  Wrote(s, c, e)
BY DEF Wrote

\* The steps of an extraction.
LEMMA RowsStep == RowsInv /\ [RowsNext]_rvars => RowsInv'
<1> SUFFICES ASSUME RowsInv, [RowsNext]_rvars PROVE RowsInv'
  OBVIOUS
<1>1. SnapshotFormed(db)
  BY RowsConstants DEF RowsInv
<1>2. Len(db.mapped) \in Nat /\ DOMAIN db.mapped = 1..Len(db.mapped)
  BY <1>1 DEF SnapshotFormed
<1>3. rowOut = [schema |-> rowOut.schema, plan |-> rowOut.plan, dropped |-> rowOut.dropped,
               data |-> rowOut.data, links |-> rowOut.links, apart |-> rowOut.apart,
               hashes |-> rowOut.hashes]
  BY DEF RowsInv
<1>4. CASE UNCHANGED <<db, rowAt, rowOut>> /\ (rowStage' = rowStage \/ rowStage' = "refused")
  BY <1>4 DEF RowsInv
<1>5. CASE Validate /\ rowStage' = "plan"
  <2>1. Checked(db) /\ rowAt = 0 /\ rowAt' = 0 /\ db' = db
    BY <1>5 DEF Validate, RefuseRows, Checked
  <2>2. rowOut' = [rowOut EXCEPT !.schema = SchemaOf(db)]
    BY <1>5 DEF Validate, RefuseRows, SchemaOf
  <2>3. rowOut'.schema = SchemaOf(db) /\ rowOut'.hashes = rowOut.hashes
    BY <1>3, <2>2
  <2>4. rowOut' = [schema |-> rowOut'.schema, plan |-> rowOut'.plan, dropped |-> rowOut'.dropped,
               data |-> rowOut'.data, links |-> rowOut'.links, apart |-> rowOut'.apart,
               hashes |-> rowOut'.hashes]
    BY <1>3, <2>2
  <2>5. QED
    BY <1>2, <1>5, <2>1, <2>3, <2>4 DEF RowsInv
<1>6. CASE Plan /\ rowStage' = "rows"
  <2>1. ~bad_links(db) /\ ~file_plan(db).refused /\ rowStage = "plan" /\ rowAt' = 1 /\ db' = db
    BY <1>6 DEF Plan, RefuseRows
  <2>2. rowOut' = [rowOut EXCEPT !.plan = file_plan(db).plan, !.dropped = file_plan(db).dropped,
                                 !.links = [a \in AccountIds(db) |-> links_of(db, a)]]
    BY <1>6 DEF Plan, RefuseRows
  <2>3. /\ rowOut'.plan = file_plan(db).plan /\ rowOut'.links = [a \in AccountIds(db) |-> links_of(db, a)]
        /\ rowOut'.schema = rowOut.schema /\ rowOut'.hashes = rowOut.hashes
    BY <1>3, <2>2
  <2>4. rowOut' = [schema |-> rowOut'.schema, plan |-> rowOut'.plan, dropped |-> rowOut'.dropped,
               data |-> rowOut'.data, links |-> rowOut'.links, apart |-> rowOut'.apart,
               hashes |-> rowOut'.hashes]
    BY <1>3, <2>2
  <2>5. Filed(db, rowOut')
    BY <2>1, <2>3 DEF Filed
  <2>6. rowAt = 0 /\ ~rowOut.hashes /\ Checked(db) /\ rowOut.schema = SchemaOf(db)
    BY <1>2, <2>1 DEF RowsInv
  <2>7. \A i \in DOMAIN db.mapped : ~(i < 1)
    BY <1>2
  <2>8. QED
    BY <1>2, <1>6, <2>1, <2>3, <2>4, <2>5, <2>6, <2>7 DEF RowsInv
<1>7. CASE WriteRows /\ rowAt' = rowAt + 1
  <2> DEFINE e == db.mapped[rowAt]
  <2>1. rowAt \in DOMAIN db.mapped /\ rowStage = "rows" /\ db' = db
    BY <1>7 DEF WriteRows
  <2>0. rowAt \in Nat /\ rowAt >= 1 /\ rowAt <= Len(db.mapped) /\ rowAt' # rowAt
    BY <1>2, <1>7, <2>1
  <2>2. /\ rowStage' = rowStage
        /\ \A r \in Rows(db, e) : ~malformed(db, e, r, rowOut.plan) /\ ~unimportable(e, r, rowOut.plan)
        /\ rowOut' = [rowOut EXCEPT
                  !.data = [c \in DOMAIN rowOut.data \cup {e.collection} |->
                              IF c = e.collection THEN RecordsOf(db, e, rowOut.plan)
                              ELSE rowOut.data[c]],
                  !.apart = IF e.separate THEN @ \cup {e.collection} ELSE @]
    BY <1>7, <2>0 DEF WriteRows, RefuseRows
  <2> HIDE DEF e
  <2>3. /\ rowOut'.plan = rowOut.plan /\ rowOut'.links = rowOut.links
        /\ rowOut'.schema = rowOut.schema /\ rowOut'.hashes = rowOut.hashes
        /\ rowOut'.data = [c \in DOMAIN rowOut.data \cup {e.collection} |->
                              IF c = e.collection THEN RecordsOf(db, e, rowOut.plan)
                              ELSE rowOut.data[c]]
        /\ rowOut'.apart = IF e.separate THEN rowOut.apart \cup {e.collection} ELSE rowOut.apart
    BY <1>3, <2>2
  <2>4. rowOut' = [schema |-> rowOut'.schema, plan |-> rowOut'.plan, dropped |-> rowOut'.dropped,
               data |-> rowOut'.data, links |-> rowOut'.links, apart |-> rowOut'.apart,
               hashes |-> rowOut'.hashes]
    BY <1>3, <2>2
  <2>5. Filed(db, rowOut') /\ Checked(db) /\ rowOut'.schema = SchemaOf(db) /\ ~rowOut'.hashes
    BY <1>2, <2>0, <2>3 DEF RowsInv, Filed
  <2>6. Wrote(db, rowOut', e)
    BY <2>2, <2>3 DEF Wrote
  <2>7. ASSUME NEW i \in DOMAIN db.mapped, i < rowAt + 1 PROVE Wrote(db, rowOut', db.mapped[i])
    <3>1. CASE i = rowAt
      BY <2>6, <3>1 DEF e
    <3>2. CASE i < rowAt
      <4>1. Wrote(db, rowOut, db.mapped[i])
        BY <3>2 DEF RowsInv
      <4>2. db.mapped[i].collection # e.collection
        <5>1. i # rowAt
          BY <1>2, <2>0, <3>2
        <5>2. QED
          BY <1>1, <2>1, <5>1 DEF SnapshotFormed, e
      <4>3. db.mapped[i].collection \in DOMAIN rowOut.data
        BY <4>1 DEF Wrote
      <4>4. /\ db.mapped[i].collection \in DOMAIN rowOut'.data
            /\ rowOut'.data[db.mapped[i].collection] = rowOut.data[db.mapped[i].collection]
        BY <2>3, <4>2, <4>3
      <4>5. rowOut.apart \subseteq rowOut'.apart
        BY <2>3
      <4>6. QED
        BY <2>3, <4>1, <4>4, <4>5, WrittenStays
    <3>3. QED
      BY <1>2, <2>0, <2>7, <3>1, <3>2
  <2>8. rowAt' \in 0..(Len(db.mapped) + 1) /\ rowAt' = rowAt + 1
    BY <1>2, <1>7, <2>0
  <2>9. db' \in Snapshots /\ rowStage' # "plan" /\ Len(db'.mapped) = Len(db.mapped) /\ DOMAIN db'.mapped = DOMAIN db.mapped
    BY <2>1, <2>2 DEF RowsInv
  <2>10. \A i \in DOMAIN db'.mapped : i < rowAt' => Wrote(db', rowOut', db'.mapped[i])
    BY <2>1, <2>7, <2>8
  <2>11. Filed(db', rowOut') /\ Checked(db') /\ rowOut'.schema = SchemaOf(db')
    BY <2>1, <2>5
  <2>12. QED
    BY <2>4, <2>5, <2>8, <2>9, <2>10, <2>11, <2>1 DEF RowsInv
<1>8. CASE Attest /\ rowStage' = "done"
  <2>1. rowAt = Len(db.mapped) + 1 /\ rowAt' = rowAt /\ db' = db /\ rowStage = "rows"
    BY <1>8 DEF Attest, RefuseRows
  <2>2. rowOut' = [rowOut EXCEPT !.hashes = TRUE]
    BY <1>8 DEF Attest, RefuseRows
  <2>3. /\ rowOut'.plan = rowOut.plan /\ rowOut'.links = rowOut.links
        /\ rowOut'.schema = rowOut.schema /\ rowOut'.data = rowOut.data /\ rowOut'.apart = rowOut.apart
    BY <1>3, <2>2
  <2>4. rowOut' = [schema |-> rowOut'.schema, plan |-> rowOut'.plan, dropped |-> rowOut'.dropped,
               data |-> rowOut'.data, links |-> rowOut'.links, apart |-> rowOut'.apart,
               hashes |-> rowOut'.hashes]
    BY <1>3, <2>2
  <2>5. Filed(db, rowOut) => Filed(db, rowOut')
    BY <2>3 DEF Filed
  <2>6. ASSUME NEW e, Wrote(db, rowOut, e) PROVE Wrote(db, rowOut', e)
    BY <2>3, <2>6 DEF Wrote
  <2>7. QED
    BY <1>2, <1>8, <2>1, <2>3, <2>4, <2>5, <2>6 DEF RowsInv
<1>9. QED
  <2>1. CASE UNCHANGED rvars
    BY <1>4, <2>1 DEF rvars
  <2>2. CASE Validate
    BY <1>4, <1>5, <2>2 DEF Validate, RefuseRows
  <2>3. CASE Plan
    BY <1>4, <1>6, <2>3 DEF Plan, RefuseRows
  <2>4. CASE WriteRows
    BY <1>4, <1>7, <2>4 DEF WriteRows, RefuseRows
  <2>5. CASE Attest
    BY <1>4, <1>8, <2>5 DEF Attest, RefuseRows
  <2>6. QED
    BY <2>1, <2>2, <2>3, <2>4, <2>5 DEF RowsNext

\* So the invariant holds of every extraction.
LEMMA RowsInvHolds == RowsSpec => []RowsInv
<1>1. QED
  BY RowsStart, RowsStep, PTL DEF RowsSpec

-----------------------------------------------------------------------------
\* What an attested bundle is made of.
Whole(s, b) ==
  /\ Checked(s) /\ b.schema = SchemaOf(s) /\ Filed(s, b)
  /\ \A e \in Entries(s) : Wrote(s, b, e)

\* A bundle with hashes.json has been through everything.
LEMMA AttestedWhole ==
  ASSUME RowsInv, rowOut.hashes
  PROVE  SnapshotFormed(db) /\ Whole(db, rowOut)
<1>1. SnapshotFormed(db)
  BY RowsConstants DEF RowsInv
<1>2. Len(db.mapped) \in Nat /\ DOMAIN db.mapped = 1..Len(db.mapped)
  BY <1>1 DEF SnapshotFormed
<1>3. rowAt = Len(db.mapped) + 1
  BY DEF RowsInv
<1>4. \A e \in Entries(db) : Wrote(db, rowOut, e)
  BY <1>2, <1>3 DEF RowsInv, Entries, ToSet
<1>5. QED
  BY <1>1, <1>2, <1>3, <1>4 DEF RowsInv, Whole

\* A field of the schema is one of the entry, of which it may have lost the requirement.
LEMMA SchemaFields ==
  ASSUME NEW s, SnapshotFormed(s), NEW b, Whole(s, b), NEW e \in Entries(s),
         NEW g \in b.schema[e.collection].fields
  PROVE  \E f \in e.fields :
           /\ g.name = f.name /\ g.column = f.column /\ g.type = f.type
           /\ g.enum = f.enum /\ g.mode = f.mode
           /\ g.required => f.required /\ ~(f \in relaxable(e) /\ EmptyIn(s, e, f))
<1>1. b.schema[e.collection].fields = relaxed(s, e)
  BY EntryOfCollection DEF Whole, SchemaOf
<1>2. PICK f \in e.fields :
        g = IF f \in relaxable(e) /\ EmptyIn(s, e, f) THEN [f EXCEPT !.required = FALSE] ELSE f
  BY <1>1, Zenon DEF relaxed
<1>3. /\ f = [name |-> f.name, column |-> f.column, type |-> f.type, enum |-> f.enum,
              mode |-> f.mode, required |-> f.required]
      /\ f.required \in BOOLEAN
  BY DEF SnapshotFormed, FieldsFormed
<1>4. CASE f \in relaxable(e) /\ EmptyIn(s, e, f)
  <2>1. g = [f EXCEPT !.required = FALSE]
    BY <1>2, <1>4
  <2>2. /\ g.name = f.name /\ g.column = f.column /\ g.type = f.type
        /\ g.enum = f.enum /\ g.mode = f.mode /\ ~g.required
    BY <1>3, <2>1
  <2>3. QED
    BY <2>2
<1>5. CASE ~(f \in relaxable(e) /\ EmptyIn(s, e, f))
  BY <1>2, <1>5
<1>6. QED
  BY <1>4, <1>5

\* A record has the value of each of its fields, and none that could not be had.
LEMMA ValueOf ==
  ASSUME NEW s, SnapshotFormed(s), NEW b, Whole(s, b), NEW e \in Entries(s),
         NEW r \in Rows(s, e), NEW f \in e.fields, f.type # "file"
  PROVE  /\ build_record(e, r, b.plan).values[f.name] = value_of(r, f)
         /\ value_of(r, f) # Bad
<1>1. \A g \in e.fields : g.name = f.name => g = f
  BY DEF SnapshotFormed, FieldsFormed
<1>2. (CHOOSE g \in e.fields : g.name = f.name) = f
  BY <1>1
<1>3. f.name \in {h.name : h \in {g \in e.fields : g.type # "file"}}
  OBVIOUS
<1> DEFINE names == {h.name : h \in {g \in e.fields : g.type # "file"}}
           values == [n \in names |-> value_of(r, CHOOSE g \in e.fields : g.name = n)]
<1>4. build_record(e, r, b.plan).values = values
  BY DEF build_record
<1>5. f.name \in DOMAIN values /\ values[f.name] = value_of(r, f)
  BY <1>2, <1>3
<1>6. ~malformed(s, e, r, b.plan)
  BY DEF Whole, Wrote
<1>7. \A n \in DOMAIN build_record(e, r, b.plan).values : build_record(e, r, b.plan).values[n] # Bad
  BY <1>6, Zenon DEF malformed
<1>8. QED
  BY <1>4, <1>5, <1>7

\* The parts of a record that every record has.
LEMMA RecordParts ==
  ASSUME NEW e, NEW r, NEW p
  PROVE  /\ build_record(e, r, p).id = record_id(r)
         /\ build_record(e, r, p).created = Stamp(e, r, "created_at")
         /\ build_record(e, r, p).updated =
              IF Stamp(e, r, "updated_at") = NULL /\ Mirrored(e, r) THEN Stamp(e, r, "created_at")
              ELSE Stamp(e, r, "updated_at")
BY DEF build_record

\* The records of an entry are those of its rows, in their order.
LEMMA RecordsAre ==
  ASSUME NEW s, NEW b, Whole(s, b), NEW e \in Entries(s)
  PROVE  /\ DOMAIN b.data[e.collection] = DOMAIN s.rows[e.table]
         /\ \A x \in DOMAIN s.rows[e.table] :
              /\ s.rows[e.table][x] \in Rows(s, e)
              /\ b.data[e.collection][x] = build_record(e, s.rows[e.table][x], b.plan)
         /\ \A c \in ToSet(b.data[e.collection]) :
              \E r \in Rows(s, e) : c = build_record(e, r, b.plan)
         /\ \A r \in Rows(s, e) : build_record(e, r, b.plan) \in ToSet(b.data[e.collection])
<1>1. b.data[e.collection] = [i \in DOMAIN s.rows[e.table] |-> build_record(e, s.rows[e.table][i], b.plan)]
  BY DEF Whole, Wrote, RecordsOf
<1>2. QED
  BY <1>1 DEF Rows, ToSet

\* A row that is written has an id that can be had.
LEMMA IdIsOne ==
  ASSUME NEW s, NEW b, Whole(s, b), NEW e \in Entries(s), NEW r \in Rows(s, e)
  PROVE  /\ record_id(r) # Bad /\ build_record(e, r, b.plan).id = record_id(r)
<1>1. ~malformed(s, e, r, b.plan)
  BY DEF Whole, Wrote
<1>2. build_record(e, r, b.plan).id # Bad
  BY <1>1, Zenon DEF malformed
<1>3. QED
  BY <1>2, RecordParts

\* Its id is the one of the row,
LEMMA IdKept ==
  ASSUME NEW s, NEW b, Whole(s, b), NEW e \in Entries(s), NEW r \in Rows(s, e)
  PROVE  build_record(e, r, b.plan).id = r.id
<1>1. record_id(r) # Bad /\ build_record(e, r, b.plan).id = record_id(r)
  BY IdIsOne
<1>2. QED
  BY <1>1 DEF record_id

\* which is not empty.
LEMMA IdGiven ==
  ASSUME NEW s, NEW b, Whole(s, b), NEW e \in Entries(s), NEW r \in Rows(s, e)
  PROVE  r.id.v # ""
<1>1. record_id(r) # Bad /\ build_record(e, r, b.plan).id = record_id(r)
  BY IdIsOne
<1>2. QED
  BY <1>1 DEF record_id

-----------------------------------------------------------------------------
\* What coerce does with a value that is there.
LEMMA CoerceCases ==
  ASSUME NEW value, NEW f, value # NULL
  PROVE  /\ f.enum # <<>> => coerce(value, f) = labelled(value, f.enum)
         /\ f.enum = <<>> =>
              /\ f.type = "date" => coerce(value, f) = moment(value)
              /\ f.type = "bool" => coerce(value, f) = as_bool(value)
              /\ f.type = "number" => coerce(value, f) = as_number(value, f.mode)
              /\ f.type = "text" => coerce(value, f) = IF value.k = "bytes" THEN Bad ELSE Text(value.v)
<1>1. coerce(value, f) =
        IF f.enum # <<>> THEN labelled(value, f.enum)
        ELSE CASE f.type = "date" -> moment(value)
               [] f.type = "bool" -> as_bool(value)
               [] f.type = "number" -> as_number(value, f.mode)
               [] f.type = "json" -> IF value.k = "text" THEN Json(value.v) ELSE value
               [] OTHER -> IF value.k = "bytes" THEN Bad ELSE Text(value.v)
  BY DEF coerce
<1>2. QED
  BY <1>1

\* The kinds of value.
LEMMA Kinds ==
  ASSUME NEW t
  PROVE  /\ Text(t).k = "text" /\ Text(t).v = t
         /\ Text(t) # Bad /\ Text(t) # NULL /\ (EmptyCell(Text(t)) <=> t = "")
         /\ (given(Text(t)) <=> t # "")
BY DEF Text, Cell, Bad, NULL, EmptyCell, given

\* What stands for nothing, and for what cannot be had.
LEMMA Markers ==
  Bad.k = "bad" /\ NULL.k = "null" /\ NULL.v = "" /\ Bad # NULL
BY DEF Cell, Bad, NULL

\* What is empty without being absent.
LEMMA EmptyKind ==
  ASSUME NEW v, EmptyCell(v), v # NULL
  PROVE  v.k \in {"text", "list"} /\ v # Bad
<1>1. CASE v = Text("")
  BY <1>1, Kinds
<1>2. CASE v = Cell("list", "[]")
  BY <1>2 DEF Cell, Bad
<1>3. QED
  BY <1>1, <1>2 DEF EmptyCell

\* A moment is one the target reads.
LEMMA Moments ==
  ASSUME NEW value, moment(value) # Bad, moment(value) # NULL
  PROVE  moment(value).v \in Instants /\ moment(value) = value /\ value # Text("")
BY DEF moment

\* A Boolean is the one Rails reads.
LEMMA Booleans ==
  ASSUME NEW value, as_bool(value) # Bad, as_bool(value) # NULL
  PROVE  /\ as_bool(value).k = "bool"
         /\ as_bool(value).v = IF RailsReads(value) THEN "true" ELSE "false"
<1>1. CASE value.k # "text"
  BY <1>1 DEF as_bool, RailsReads, Cell
<1>2. CASE value.k = "text" /\ Strip(value.v) # "" /\ value.v \in RAILS_FALSE_STRINGS
  BY <1>2 DEF as_bool, RailsReads, Cell
<1>3. CASE value.k = "text" /\ Strip(value.v) # "" /\ value.v \notin RAILS_FALSE_STRINGS
  BY <1>3 DEF as_bool, RailsReads, Cell
<1>4. CASE value.k = "text" /\ Strip(value.v) = ""
  BY <1>4 DEF as_bool
<1>5. QED
  BY <1>1, <1>2, <1>3, <1>4

\* A number is one the target can store.
LEMMA Numbers ==
  ASSUME NEW value, NEW mode, as_number(value, mode) # Bad,
         mode = "int" => /\ value.k = "int" => value.v \notin Fractional \cup Outside
                         /\ value.k = "decimal" => value.v \notin Outside
  PROVE  /\ as_number(value, mode).k \in {"int", "real"} /\ as_number(value, mode).v \notin NotFinite
         /\ mode = "int" => as_number(value, mode).v \notin Fractional \cup Outside
<1> DEFINE n == IF value.k = "decimal"
           THEN IF mode = "int" THEN Cell("int", IF value.v \in Fractional THEN "1" ELSE value.v)
                ELSE Cell("real", value.v)
           ELSE value
<1>1. as_number(value, mode) = IF \/ n.k \notin {"int", "real"} \/ n.v \in NotFinite
                                  \/ mode = "int" /\ n.k = "real" /\ n.v \in Fractional \cup Outside
                               THEN Bad ELSE n
  BY DEF as_number
<1>2. mode = "int" /\ n.k = "int" => n.v \notin Fractional \cup Outside
  BY DEF Cell, Fractional, Outside
<1> HIDE DEF n
<1>3. QED
  BY <1>1, <1>2

\* An enum has a label.
LEMMA Labels ==
  ASSUME NEW value, NEW enum, labelled(value, enum) # Bad
  PROVE  labelled(value, enum).k = "text" /\ labelled(value, enum).v \in {enum[o] : o \in DOMAIN enum}
<1>1. CASE value.k = "int" /\ value.v \in DOMAIN enum
  BY <1>1 DEF labelled, Text, Cell
<1>2. CASE value.k = "text" /\ value.v \in {enum[o] : o \in DOMAIN enum}
  BY <1>2 DEF labelled, Text, Cell
<1>3. CASE ~(value.k = "int" /\ value.v \in DOMAIN enum) /\ ~(value.k = "text" /\ value.v \in {enum[o] : o \in DOMAIN enum})
  BY <1>3 DEF labelled
<1>4. QED
  BY <1>1, <1>2, <1>3

\* An address that is kept is one the target takes.
LEMMA Addresses ==
  ASSUME NEW s, SnapshotFormed(s), NEW e \in Entries(s), ~invalid_identity(s, e), e.is_auth,
         NEW f \in e.fields, f.name = "email", NEW r \in Rows(s, e), r.vals[f.column].v # ""
  PROVE  r.vals[f.column].v \in Emails
<1>1. f.column \in ColumnOf(e, "email")
  BY DEF SnapshotFormed, FieldsFormed, ColumnOf
<1>2. given(r.vals[f.column])
  <2>1. NULL.v = "" /\ Text("").v = ""
    BY Kinds, Markers
  <2>2. QED
    BY <2>1 DEF given
<1>3. QED
  BY <1>1, <1>2 DEF invalid_identity

-----------------------------------------------------------------------------
\* A converted value is one its field takes.
LEMMA ScalarFits ==
  ASSUME NEW s, SnapshotFormed(s), NEW e \in Entries(s), ~invalid_identity(s, e),
         NEW f \in e.fields, f.type \notin {"file", "relation"}, NEW r \in Rows(s, e),
         coerce(r.vals[f.column], f) # Bad, ~EmptyCell(coerce(r.vals[f.column], f))
  PROVE  FitsField(e, f, coerce(r.vals[f.column], f))
<1> DEFINE raw == r.vals[f.column]
           v == coerce(raw, f)
<1>1. v # NULL /\ v # Bad
  BY DEF EmptyCell
<1>2. raw # NULL
  BY <1>1 DEF coerce
<1>3. /\ f.enum # <<>> => f.type = "text"
      /\ e.is_auth /\ f.name = "email" => f.type = "text" /\ f.enum = <<>>
      /\ f.type = "number" /\ f.mode = "int" =>
           /\ raw.k = "int" => raw.v \notin Fractional \cup Outside
           /\ raw.k = "decimal" => raw.v \notin Outside
  BY DEF SnapshotFormed, FieldsFormed
<1> HIDE DEF raw, v
<1>4. v = coerce(raw, f)
  BY DEF v
<1>5. CASE f.enum # <<>>
  <2>1. v = labelled(raw, f.enum)
    BY <1>2, <1>4, <1>5, CoerceCases
  <2>2. v.k = "text" /\ v.v \in {f.enum[o] : o \in DOMAIN f.enum}
    BY <1>1, <2>1, Labels
  <2>3. FitsField(e, f, v)
    BY <1>3, <1>5, <2>2 DEF FitsField
  <2>4. QED
    BY <2>3 DEF v, raw
<1>6. CASE f.enum = <<>>
  <2>1. CASE f.type = "bool"
    <3>1. v = as_bool(raw)
      BY <1>2, <1>4, <1>6, <2>1, CoerceCases
    <3>2. v.k = "bool"
      BY <1>1, <3>1, Booleans
    <3>3. FitsField(e, f, v)
      BY <2>1, <3>2 DEF FitsField
    <3>4. QED
      BY <3>3 DEF v, raw
  <2>2. CASE f.type = "number"
    <3>1. v = as_number(raw, f.mode)
      BY <1>2, <1>4, <1>6, <2>2, CoerceCases
    <3>2. /\ v.k \in {"int", "real"} /\ v.v \notin NotFinite
          /\ f.mode = "int" => v.v \notin Fractional \cup Outside
      BY <1>1, <1>3, <2>2, <3>1, Numbers
    <3>3. FitsField(e, f, v)
      BY <2>2, <3>2 DEF FitsField
    <3>4. QED
      BY <3>3 DEF v, raw
  <2>3. CASE f.type = "date"
    <3>1. v = moment(raw)
      BY <1>2, <1>4, <1>6, <2>3, CoerceCases
    <3>2. v.v \in Instants
      BY <1>1, <3>1, Moments
    <3>3. FitsField(e, f, v)
      BY <2>3, <3>2 DEF FitsField
    <3>4. QED
      BY <3>3 DEF v, raw
  <2>4. CASE f.type = "text"
    <3>1. v = Text(raw.v)
      BY <1>1, <1>2, <1>4, <1>6, <2>4, CoerceCases
    <3>6. ~EmptyCell(v)
      BY DEF v, raw
    <3>2. v.k = "text" /\ v.v = raw.v /\ raw.v # ""
      BY <3>1, <3>6, Kinds
    <3>3. e.is_auth /\ f.name = "email" => v.v \in Emails
      BY <3>2, Addresses DEF raw
    <3>4. FitsField(e, f, v)
      BY <1>6, <2>4, <3>2, <3>3 DEF FitsField
    <3>5. QED
      BY <3>4 DEF v, raw
  <2>5. CASE f.type \notin {"bool", "number", "date", "text"}
    <3>1. FitsField(e, f, v)
      BY <1>3, <1>6, <2>5 DEF FitsField
    <3>2. QED
      BY <3>1 DEF v, raw
  <2>6. QED
    BY <2>1, <2>2, <2>3, <2>4, <2>5
<1>7. QED
  BY <1>5, <1>6

\* Only a text, or a list, can be empty without being absent.
LEMMA EmptyKinds ==
  ASSUME NEW raw, NEW f, f.enum # <<>> => f.type = "text",
         EmptyCell(coerce(raw, f)), coerce(raw, f) # NULL, f.type \in {"bool", "number", "date"}
  PROVE  FALSE
<1> DEFINE v == coerce(raw, f)
<1>1. raw # NULL /\ f.enum = <<>>
  BY DEF coerce
<1>2. v \in {Text(""), Cell("list", "[]")}
  BY DEF EmptyCell
<1>3. v.k \in {"text", "list"} /\ v # Bad
  BY EmptyKind
<1>4. CASE f.type = "bool"
  <2>1. v = as_bool(raw)
    BY <1>1, <1>4, CoerceCases
  <2>2. QED
    BY <1>3, <2>1, Booleans
<1>5. CASE f.type = "number"
  <2>1. v = as_number(raw, f.mode) /\ v.k \notin {"int", "real"}
    BY <1>1, <1>3, <1>5, CoerceCases
  <2>2. QED
    BY <1>3, <2>1 DEF as_number, Cell
<1>6. CASE f.type = "date"
  <2>1. v = moment(raw)
    BY <1>1, <1>6, CoerceCases
  <2>2. v = raw /\ raw # Text("") /\ raw.k = "text"
    BY <1>3, <2>1 DEF moment
  <2>3. v # Text("") /\ v # Cell("list", "[]")
    <3>1. Cell("list", "[]").k = "list"
      BY DEF Cell
    <3>2. QED
      BY <2>2, <3>1
  <2>4. QED
    BY <1>2, <2>3
<1>7. QED
  BY <1>4, <1>5, <1>6

\* A relation names a record of its target.
LEMMA RelationFits ==
  ASSUME SnapshotFormed(db), Whole(db, rowOut), NEW e \in Entries(db),
         NEW f \in e.fields, f.type = "relation", NEW r \in Rows(db, e),
         relation_value(r.vals[f.column]) # Bad, relation_value(r.vals[f.column]) # NULL
  PROVE  FitsField(e, f, relation_value(r.vals[f.column])) /\ ~EmptyCell(relation_value(r.vals[f.column]))
<1> DEFINE raw == r.vals[f.column]
           v == relation_value(raw)
<1>1. raw # NULL /\ v = Text(raw.v)
  BY DEF relation_value
<1>2. v.v = raw.v
  BY <1>1, Kinds
<1>3. f.column \in DOMAIN e.relations
  BY DEF SnapshotFormed, FieldsFormed
<1>4. PICK t \in Entries(db) : t.collection = e.relations[f.column]
  BY <1>3 DEF SnapshotFormed
<1>5. EntryOf(db, e.relations[f.column]) = t
  BY <1>4, EntryOfCollection
<1>6. ~dangling(db, e)
  BY DEF Whole, Checked
<1>7. PICK d \in Rows(db, t) : d.id.v = raw.v
  BY <1>1, <1>3, <1>5, <1>6 DEF dangling
<1>8. build_record(t, d, rowOut.plan) \in ToSet(rowOut.data[t.collection])
  BY RecordsAre
<1>9. build_record(t, d, rowOut.plan).id = d.id /\ d.id.v # ""
  <2>1. build_record(t, d, rowOut.plan).id = d.id
    BY IdKept
  <2>2. d.id.v # ""
    BY IdGiven
  <2>3. QED
    BY <2>1, <2>2
<1>10. raw.v \in IdsOf(t.collection)
  BY <1>7, <1>8, <1>9 DEF IdsOf
<1>11. FitsField(e, f, v)
  BY <1>2, <1>4, <1>10 DEF FitsField
<1>12. ~EmptyCell(Text(raw.v))
  BY <1>7, <1>9, Kinds
<1>13. QED
  BY <1>1, <1>11, <1>12

\* What a field of the schema takes is what the field of the entry fits.
LEMMA SameFits ==
  ASSUME NEW e, NEW f, NEW g, NEW v, FitsField(e, f, v),
         g.name = f.name, g.column = f.column, g.type = f.type, g.enum = f.enum, g.mode = f.mode
  PROVE  FitsField(e, g, v)
BY DEF FitsField

\* A field that is still required has no empty value.
LEMMA RequiredGiven ==
  ASSUME NEW s, SnapshotFormed(s), NEW e \in Entries(s), NEW f \in e.fields, NEW r \in Rows(s, e),
         f.type \notin {"file", "relation"}, f.required, ~(e.is_auth /\ f.name \in Injected),
         EmptyCell(coerce(r.vals[f.column], f))
  PROVE  f \in relaxable(e) /\ EmptyIn(s, e, f)
BY DEF relaxable, EmptyIn

\* Every value of an attested bundle is one that its field takes.
LEMMA ValueTaken ==
  ASSUME SnapshotFormed(db), Whole(db, rowOut), NEW e \in Entries(db), NEW r \in Rows(db, e),
         NEW g \in rowOut.schema[e.collection].fields, g.type # "file"
  PROVE  Takes(e, g, build_record(e, r, rowOut.plan).values[g.name])
<1>1. PICK f \in e.fields :
         /\ g.name = f.name /\ g.column = f.column /\ g.type = f.type
         /\ g.enum = f.enum /\ g.mode = f.mode
         /\ g.required => f.required /\ ~(f \in relaxable(e) /\ EmptyIn(db, e, f))
  BY SchemaFields
<1> DEFINE v == value_of(r, f)
<1>2. build_record(e, r, rowOut.plan).values[g.name] = v /\ v # Bad
  BY <1>1, ValueOf
<1>3. CASE f.type = "relation"
  <2>1. v = relation_value(r.vals[f.column])
    BY <1>3 DEF value_of
  <2>2. CASE v = NULL
    <3>1. r.vals[f.column] = NULL
      <4>1. ASSUME r.vals[f.column] # NULL PROVE FALSE
        <5>1. v = Text(r.vals[f.column].v) \/ v = Bad
          BY <2>1, <4>1 DEF relation_value
        <5>2. QED
          BY <2>2, <5>1, Kinds, Markers
      <4>2. QED
        BY <4>1
    <3>2. ~f.required
      BY <1>3, <3>1 DEF SnapshotFormed, FieldsFormed
    <3>3. QED
      BY <1>1, <1>2, <2>2, <3>2 DEF Takes, Requires
  <2>3. CASE v # NULL
    <3>1. FitsField(e, f, v) /\ ~EmptyCell(v)
      BY <1>2, <1>3, <2>1, <2>3, RelationFits
    <3>2. FitsField(e, g, v)
      BY <1>1, <3>1, SameFits
    <3>3. QED
      BY <1>2, <3>1, <3>2 DEF Takes
  <2>4. QED
    BY <2>2, <2>3
<1>4. CASE f.type # "relation"
  <2>1. v = coerce(r.vals[f.column], f) /\ f.type \notin {"file", "relation"}
    BY <1>1, <1>4 DEF value_of
  <2>2. CASE EmptyCell(v)
    <3>1. ~Requires(e, g)
      BY <1>1, <2>1, <2>2, RequiredGiven DEF Requires
    <3>2. CASE v = NULL
      BY <1>2, <3>1, <3>2 DEF Takes
    <3>3. CASE v # NULL
      <4>1. f.enum # <<>> => f.type = "text"
        BY DEF SnapshotFormed, FieldsFormed
      <4>2. f.type \notin {"bool", "number", "date"}
        BY <2>1, <2>2, <3>3, <4>1, EmptyKinds
      <4>3. f.type \in {"text", "json"}
        BY <2>1, <4>2 DEF SnapshotFormed, FieldsFormed
      <4>4. QED
        BY <1>1, <1>2, <2>2, <3>1, <4>3 DEF Takes
    <3>4. QED
      BY <3>2, <3>3
  <2>3. CASE ~EmptyCell(v)
    <3>1. ~invalid_identity(db, e)
      BY DEF Whole, Checked
    <3>2. FitsField(e, f, v)
      BY <1>2, <2>1, <2>3, <3>1, ScalarFits
    <3>3. FitsField(e, g, v)
      BY <1>1, <3>2, SameFits
    <3>4. QED
      BY <1>2, <2>3, <3>3 DEF Takes
  <2>4. QED
    BY <2>2, <2>3
<1>5. QED
  BY <1>3, <1>4

-----------------------------------------------------------------------------
\* Every record of an attested bundle is taken.
LEMMA AllTaken ==
  ASSUME SnapshotFormed(db), Whole(db, rowOut)
  PROVE  RecordsTaken
<1> SUFFICES ASSUME NEW e \in Entries(db), NEW c \in Records(e) PROVE TakesRecord(e, c)
  BY DEF RecordsTaken
<1>1. PICK r \in Rows(db, e) : c = build_record(e, r, rowOut.plan)
  BY RecordsAre DEF Records
<1>2. ASSUME NEW g \in rowOut.schema[e.collection].fields, g.type # "file"
      PROVE  Takes(e, g, c.values[g.name])
  BY <1>1, <1>2, ValueTaken
<1>3. ASSUME e.collection \notin rowOut.apart PROVE NULL \notin {c.created, c.updated}
  <2>1. ~e.separate /\ ~unimportable(e, r, rowOut.plan)
    BY <1>3 DEF Whole, Wrote
  <2>2. QED
    BY <1>1, <2>1, Zenon DEF unimportable
<1>4. QED
  BY <1>2, <1>3 DEF TakesRecord

\* An index of the schema is one of the entry, over a field of a column.
LEMMA SchemaIndexes ==
  ASSUME NEW s, SnapshotFormed(s), NEW b, Whole(s, b), NEW e \in Entries(s),
         NEW x \in b.schema[e.collection].indexes
  PROVE  \E i \in e.indexes : emittable(e, i) /\ x = index_for(e, i)
<1>1. b.schema[e.collection].indexes = indexes_for(e)
  BY EntryOfCollection DEF Whole, SchemaOf
<1>2. QED
  BY <1>1 DEF indexes_for

\* Of two ranks one comes first.
LEMMA RanksDiffer == \A a, b \in Nat : a # b => a < b \/ b < a
OBVIOUS

\* Two indexes whose names fold to one are told apart by the rank that comes second.
LEMMA IndexNames ==
  ASSUME NEW s, SnapshotFormed(s), NEW e \in Entries(s),
         NEW i \in e.indexes, emittable(e, i), NEW j \in e.indexes, emittable(e, j),
         Folded(i.name) = Folded(j.name),
         (IF second(e, i) THEN i.name ELSE "") = (IF second(e, j) THEN j.name ELSE "")
  PROVE  i = j
<1> SUFFICES ASSUME i # j PROVE FALSE
  OBVIOUS
<1>1. /\ i.name # j.name /\ i.rank # j.rank /\ i.rank \in Nat /\ j.rank \in Nat
      /\ i.name # "" /\ j.name # ""
  <2>1. IndexesFormed(s, e)
    BY DEF SnapshotFormed
  <2>2. QED
    BY <2>1 DEF IndexesFormed
<1>2. i.rank < j.rank => second(e, j)
  BY <1>1 DEF second
<1>3. j.rank < i.rank => second(e, i)
  BY <1>1 DEF second
<1>4. i.rank < j.rank \/ j.rank < i.rank
  BY <1>1, RanksDiffer, Zenon
<1>5. QED
  BY <1>1, <1>2, <1>3, <1>4

\* So an index of the schema is known by its name.
LEMMA NamedOnce ==
  ASSUME NEW s, SnapshotFormed(s), NEW b, Whole(s, b), NEW e \in Entries(s),
         NEW x \in b.schema[e.collection].indexes, NEW y \in b.schema[e.collection].indexes,
         x.name = y.name
  PROVE  x = y
<1>1. PICK i \in e.indexes : emittable(e, i) /\ x = index_for(e, i)
  BY SchemaIndexes
<1>2. PICK j \in e.indexes : emittable(e, j) /\ y = index_for(e, j)
  BY SchemaIndexes
<1> DEFINE u == IF second(e, i) THEN i.name ELSE ""
           w == IF second(e, j) THEN j.name ELSE ""
<1>3. x.name = <<Folded(i.name), u>> /\ y.name = <<Folded(j.name), w>>
  BY <1>1, <1>2 DEF index_for
<1> HIDE DEF u, w
<1>4. <<Folded(i.name), u>> = <<Folded(j.name), w>>
  BY <1>3, Zenon
<1>5. Folded(i.name) = Folded(j.name) /\ u = w
  BY <1>4, Zenon
<1>6. i = j
  BY <1>1, <1>2, <1>5, IndexNames DEF u, w
<1>7. QED
  BY <1>1, <1>2, <1>6

\* Texts are one when what they hold is.
LEMMA OneText ==
  ASSUME NEW t, NEW u, Text(t) = Text(u) PROVE t = u
BY DEF Text, Cell

\* A text is kept as it is, so that what a unique index told apart stays so.
LEMMA TextKept ==
  ASSUME NEW raw, NEW f, f.type = "text", f.enum = <<>>,
         coerce(raw, f) # Bad, given(coerce(raw, f))
  PROVE  coerce(raw, f) = Text(raw.v) /\ given(raw) /\ raw.k # "bytes"
<1>1. raw # NULL
  BY DEF coerce, given
<1>2. coerce(raw, f) = Text(raw.v) /\ raw.k # "bytes"
  BY <1>1, CoerceCases
<1>3. raw.v # ""
  <2>1. given(Text(raw.v))
    BY <1>2
  <2>2. QED
    BY <2>1, Kinds
<1>4. raw # Text("")
  BY <1>3, Kinds
<1>5. QED
  BY <1>1, <1>2, <1>4 DEF given

\* Its unique indexes hold.
LEMMA AllIndexed ==
  ASSUME SnapshotFormed(db), Whole(db, rowOut)
  PROVE  IndexesTaken
<1> SUFFICES ASSUME NEW e \in Entries(db)
             PROVE  /\ \A x, y \in rowOut.schema[e.collection].indexes : x # y => x.name # y.name
                    /\ \A x \in rowOut.schema[e.collection].indexes : TakesIndex(e, x)
  BY DEF IndexesTaken
<1>1. \A x, y \in rowOut.schema[e.collection].indexes : x # y => x.name # y.name
  BY NamedOnce
<1>2. ASSUME NEW index \in rowOut.schema[e.collection].indexes, index.unique, ~index.where,
             NEW f \in e.fields, f.name = index.field, f.type = "text", f.enum = <<>>,
             NEW x \in DOMAIN rowOut.data[e.collection], NEW y \in DOMAIN rowOut.data[e.collection],
             x # y, given(rowOut.data[e.collection][x].values[index.field]),
             rowOut.data[e.collection][x].values[index.field] = rowOut.data[e.collection][y].values[index.field]
      PROVE  FALSE
  <2>1. PICK i \in e.indexes : /\ emittable(e, i) /\ i.unique /\ ~i.where
                               /\ index.field = e.field_names[i.column]
    <3>1. PICK i \in e.indexes : emittable(e, i) /\ index = index_for(e, i)
      BY SchemaIndexes
    <3>2. i.unique = index.unique /\ i.where = index.where /\ index.field = e.field_names[i.column]
      BY <3>1 DEF index_for
    <3>3. QED
      BY <1>2, <3>1, <3>2
  <2>2. i.column \in DOMAIN e.field_names
    BY <2>1 DEF emittable
  <2>3. f.column = i.column
    <3>1. FieldsFormed(db, e)
      BY DEF SnapshotFormed
    <3>2. f.column \in DOMAIN e.field_names /\ e.field_names[f.column] = f.name
      BY <1>2, <3>1 DEF FieldsFormed
    <3>3. QED
      BY <1>2, <2>1, <2>2, <3>1, <3>2 DEF FieldsFormed
  <2> DEFINE p == db.rows[e.table][x]
             q == db.rows[e.table][y]
  <2>4. /\ x \in DOMAIN db.rows[e.table] /\ y \in DOMAIN db.rows[e.table]
        /\ p \in Rows(db, e) /\ q \in Rows(db, e)
        /\ rowOut.data[e.collection][x] = build_record(e, p, rowOut.plan)
        /\ rowOut.data[e.collection][y] = build_record(e, q, rowOut.plan)
    <3>1. /\ DOMAIN rowOut.data[e.collection] = DOMAIN db.rows[e.table]
          /\ \A z \in DOMAIN db.rows[e.table] :
               /\ db.rows[e.table][z] \in Rows(db, e)
               /\ rowOut.data[e.collection][z] = build_record(e, db.rows[e.table][z], rowOut.plan)
      BY RecordsAre
    <3>2. QED
      BY <1>2, <3>1
  <2>5. value_of(p, f) = coerce(p.vals[f.column], f) /\ value_of(q, f) = coerce(q.vals[f.column], f)
    BY <1>2 DEF value_of
  <2>6. /\ rowOut.data[e.collection][x].values[f.name] = coerce(p.vals[f.column], f)
        /\ rowOut.data[e.collection][y].values[f.name] = coerce(q.vals[f.column], f)
        /\ coerce(p.vals[f.column], f) # Bad /\ coerce(q.vals[f.column], f) # Bad
    <3>1. /\ build_record(e, p, rowOut.plan).values[f.name] = value_of(p, f) /\ value_of(p, f) # Bad
          /\ build_record(e, q, rowOut.plan).values[f.name] = value_of(q, f) /\ value_of(q, f) # Bad
      BY <1>2, <2>4, ValueOf
    <3>2. QED
      BY <2>4, <2>5, <3>1
  <2> HIDE DEF p, q
  <2>7. /\ coerce(p.vals[f.column], f) = coerce(q.vals[f.column], f)
        /\ given(coerce(p.vals[f.column], f))
    BY <1>2, <2>6
  <2>8. /\ coerce(p.vals[f.column], f) = Text(p.vals[f.column].v) /\ given(p.vals[f.column])
        /\ coerce(q.vals[f.column], f) = Text(q.vals[f.column].v) /\ given(q.vals[f.column])
        /\ "bytes" \notin {p.vals[f.column].k, q.vals[f.column].k}
    BY <1>2, <2>6, <2>7, TextKept
  <2>9. p.vals[i.column].v = q.vals[i.column].v
    <3>1. Text(p.vals[f.column].v) = Text(q.vals[f.column].v)
      BY <2>7, <2>8
    <3>2. p.vals[f.column].v = q.vals[f.column].v
      BY <3>1, OneText
    <3>3. QED
      BY <2>3, <3>2
  <2>10. p.vals[i.column].v # q.vals[i.column].v
    <3>1. IndexesFormed(db, e)
      BY DEF SnapshotFormed
    <3>2. \A u, w \in DOMAIN db.rows[e.table] :
            LET value(z) == db.rows[e.table][z].vals[i.column]
            IN u # w /\ given(value(u)) /\ given(value(w)) => value(u) # value(w)
      BY <2>1, <2>2, <3>1 DEF IndexesFormed
    <3>3. given(p.vals[i.column]) /\ given(q.vals[i.column])
      BY <2>3, <2>8
    <3>4. p.vals[i.column] # q.vals[i.column]
      BY <1>2, <2>4, <3>2, <3>3 DEF p, q
    <3>5. OneKind(p.vals[f.column], q.vals[f.column])
      <4>1. FieldsFormed(db, e)
        BY DEF SnapshotFormed
      <4>2. QED
        BY <1>2, <2>4, <4>1 DEF FieldsFormed
    <3>6. QED
      BY <2>3, <2>8, <3>4, <3>5 DEF OneKind
  <2>11. QED
    BY <2>9, <2>10
<1>3. QED
  BY <1>1, <1>2 DEF TakesIndex

\* No account has two identities of one provider, and no identity two accounts.
LEMMA AllApart ==
  ASSUME Whole(db, rowOut)
  PROVE  LinksApart
<1> SUFFICES ASSUME NEW a \in AccountIds(db), NEW b \in AccountIds(db),
                    NEW l \in rowOut.links[a], NEW m \in rowOut.links[b],
                    l[1] = m[1], a = b \/ l[2] = m[2]
             PROVE  a = b /\ l = m
  BY DEF LinksApart
<1>1. rowOut.links[a] = links_of(db, a) /\ rowOut.links[b] = links_of(db, b) /\ ~bad_links(db)
  BY DEF Whole, Filed
<1>2. PICK i \in DOMAIN db.linked : /\ db.linked[i].account = a
                                    /\ l = <<db.linked[i].provider, db.linked[i].uid>>
  BY <1>1 DEF links_of, ToSet
<1>3. PICK j \in DOMAIN db.linked : /\ db.linked[j].account = b
                                    /\ m = <<db.linked[j].provider, db.linked[j].uid>>
  BY <1>1 DEF links_of, ToSet
<1>4. repeats(db.linked[i], db.linked[j])
  BY <1>2, <1>3 DEF repeats
<1>5. i = j
  BY <1>1, <1>4 DEF bad_links
<1>6. QED
  BY <1>2, <1>3, <1>5

\* A record tells what its row told.
LEMMA AllTold ==
  ASSUME SnapshotFormed(db), Whole(db, rowOut), NEW e \in Entries(db),
         NEW x \in DOMAIN rowOut.data[e.collection]
  PROVE  TellsTheSame(e, db.rows[e.table][x], rowOut.data[e.collection][x])
<1> DEFINE row == db.rows[e.table][x]
           record == rowOut.data[e.collection][x]
<1>1. row \in Rows(db, e) /\ record = build_record(e, row, rowOut.plan)
  BY RecordsAre
<1> HIDE DEF row, record
<1>2. ASSUME NEW f \in e.fields, f.type = "bool", record.values[f.name] # NULL
      PROVE  record.values[f.name].v = IF RailsReads(row.vals[f.column]) THEN "true" ELSE "false"
  <2>1. record.values[f.name] = value_of(row, f) /\ value_of(row, f) # Bad
    BY <1>1, <1>2, ValueOf
  <2>2. value_of(row, f) = coerce(row.vals[f.column], f)
    BY <1>2 DEF value_of
  <2>3. f.enum = <<>>
    BY <1>2 DEF SnapshotFormed, FieldsFormed
  <2>4. row.vals[f.column] # NULL
    BY <1>2, <2>1, <2>2 DEF coerce
  <2>5. coerce(row.vals[f.column], f) = as_bool(row.vals[f.column])
    BY <1>2, <2>3, <2>4, CoerceCases
  <2>6. QED
    BY <1>2, <2>1, <2>2, <2>5, Booleans
<1>3. ASSUME "updated_at" \in e.columns
      PROVE  record.updated = IF row.vals["updated_at"] = Text("") THEN NULL ELSE row.vals["updated_at"]
  <2>1. record.updated = moment(row.vals["updated_at"])
    BY <1>1, <1>3, RecordParts DEF Stamp, Mirrored
  <2>2. ~malformed(db, e, row, rowOut.plan)
    BY <1>1 DEF Whole, Wrote
  <2>3. moment(row.vals["updated_at"]) # Bad
    BY <1>1, <2>1, <2>2, Zenon DEF malformed
  <2>4. QED
    BY <2>1, <2>3 DEF moment
<1>4. QED
  BY <1>2, <1>3 DEF TellsTheSame, row, record

\* The names of a record's files are a sequence: with one name, or more.
LEMMA FilesCounted ==
  ASSUME NEW S, NEW plan \in Seq(S), NEW c, NEW r, NEW a, FilesOf(plan, c, r, a) # <<>>
  PROVE  \/ FilesOf(plan, c, r, a) = <<FilesOf(plan, c, r, a)[1]>>
         \/ Len(FilesOf(plan, c, r, a)) > 1
<1> DEFINE mine == {i \in DOMAIN plan : /\ plan[i].collection = c /\ plan[i].record = r
                                        /\ plan[i].field = a}
           nth(k) == CHOOSE i \in mine : Cardinality({j \in mine : j <= i}) = k
           n == Cardinality(mine)
<1>1. n \in Nat
  <2>1. Len(plan) \in Nat /\ DOMAIN plan = 1..Len(plan)
    OBVIOUS
  <2>2. IsFiniteSet(DOMAIN plan)
    BY <2>1, FS_Interval
  <2>3. IsFiniteSet(mine)
    BY <2>2, FS_Subset
  <2>4. QED
    BY <2>3, FS_CardinalityType
<1>2. FilesOf(plan, c, r, a) = [k \in 1..n |-> plan[nth(k)].target]
  BY DEF FilesOf
<1> DEFINE files == [k \in 1..n |-> plan[nth(k)].target]
<1> HIDE DEF n, nth
<1>3. Len(files) = n
  BY <1>1
<1>4. CASE n = 0
  <2>1. files = <<>>
    BY <1>4
  <2>2. QED
    BY <1>2, <2>1
<1>5. CASE n = 1
  <2>1. files = <<files[1]>>
    BY <1>5
  <2>2. QED
    BY <1>2, <2>1
<1>6. CASE n > 1
  BY <1>2, <1>3, <1>6
<1>7. QED
  BY <1>1, <1>4, <1>5, <1>6

\* A record names the files it has.
LEMMA FilesAre ==
  ASSUME SnapshotFormed(db), Whole(db, rowOut), NEW e \in Entries(db), NEW n \in DOMAIN e.attachments,
         NEW c \in Records(e)
  PROVE  c.files[e.attachment_names[n]] =
           LET files == FilesOf(rowOut.plan, e.collection, c.id.v, n)
           IN IF e.attachments[n] = "has_one_attached" /\ files # <<>> THEN <<files[1]>> ELSE files
<1>1. PICK r \in Rows(db, e) : c = build_record(e, r, rowOut.plan)
  BY RecordsAre DEF Records
<1>2. c.id = r.id
  BY <1>1, IdKept
<1>3. \A m \in DOMAIN e.attachments : e.attachment_names[m] = e.attachment_names[n] => m = n
  BY DEF SnapshotFormed
<1>4. (CHOOSE m \in DOMAIN e.attachments : e.attachment_names[m] = e.attachment_names[n]) = n
  BY <1>3
<1>5. c.files[e.attachment_names[n]] = named(rowOut.plan, e, r, n)
  BY <1>1, <1>4 DEF build_record
<1>6. QED
  BY <1>2, <1>5 DEF named

\* all of them, or the first of those a field for one file was given.
LEMMA AllNamed ==
  ASSUME SnapshotFormed(db), Whole(db, rowOut), NEW S, rowOut.plan \in Seq(S)
  PROVE  FilesNamed
<1> SUFFICES ASSUME NEW e \in Entries(db), NEW n \in DOMAIN e.attachments, NEW c \in Records(e)
             PROVE  LET files == FilesOf(rowOut.plan, e.collection, c.id.v, n)
                    IN \/ c.files[e.attachment_names[n]] = files
                       \/ e.attachments[n] = "has_one_attached" /\ Len(files) > 1
  BY DEF FilesNamed
<1> DEFINE files == FilesOf(rowOut.plan, e.collection, c.id.v, n)
           its == c.files[e.attachment_names[n]]
<1>1. its = IF e.attachments[n] = "has_one_attached" /\ files # <<>> THEN <<files[1]>> ELSE files
  BY FilesAre
<1>2. files # <<>> => files = <<files[1]>> \/ Len(files) > 1
  BY FilesCounted
<1>3. its = files \/ (e.attachments[n] = "has_one_attached" /\ Len(files) > 1)
  <2> HIDE DEF files, its
  <2>1. QED
    BY <1>1, <1>2
<1>4. QED
  BY <1>3

-----------------------------------------------------------------------------
\* The plan after n attachments.
Plans(s, n, g) ==
  [k \in 0..n |-> IF k = 0 THEN NoPlan ELSE with_attachment(s, g[k - 1], s.attached[k])]

\* Planning comes to an end.
LEMMA PlansExist ==
  ASSUME NEW s, NEW n \in Nat
  PROVE  \E g : g = Plans(s, n, g)
<1> DEFINE S == {m \in Nat : ~\E g : g = Plans(s, m, g)}
<1> SUFFICES ASSUME S # {} PROVE FALSE
  OBVIOUS
<1>1. PICK m \in S : \A k \in S : ~(k < m)
  <2>1. \E x \in S : \A y \in S : <<y, x>> \notin OpToRel(<, Nat)
    BY WFMin, NatLessThanWellFounded, Zenon
  <2> QED
    BY <2>1, Zenon DEF OpToRel
<1>2. m \in Nat /\ ~\E g : g = Plans(s, m, g)
  OBVIOUS
<1>3. CASE m = 0
  <2> DEFINE g == [k \in 0..0 |-> NoPlan]
  <2>1. g = Plans(s, 0, g)
    BY DEF Plans
  <2> QED
    BY <1>2, <1>3, <2>1
<1>4. CASE m # 0
  <2>1. m - 1 \in Nat /\ m - 1 < m
    BY <1>2, <1>4
  <2>2. PICK g : g = Plans(s, m - 1, g)
    BY <1>1, <2>1
  <2>3. \A k \in 0..(m - 1) : g[k] = IF k = 0 THEN NoPlan ELSE with_attachment(s, g[k - 1], s.attached[k])
    BY <2>2 DEF Plans
  <2> DEFINE h == [k \in 0..m |-> IF k = m THEN with_attachment(s, g[m - 1], s.attached[m]) ELSE g[k]]
  <2>4. \A k \in 0..m : h[k] = IF k = m THEN with_attachment(s, g[m - 1], s.attached[m]) ELSE g[k]
    OBVIOUS
  <2>5. h = [k \in 0..m |-> h[k]]
    OBVIOUS
  <2> HIDE DEF h
  <2>6. \A k \in 0..m : h[k] = IF k = 0 THEN NoPlan ELSE with_attachment(s, h[k - 1], s.attached[k])
    <3> SUFFICES ASSUME NEW k \in 0..m
                 PROVE  h[k] = IF k = 0 THEN NoPlan ELSE with_attachment(s, h[k - 1], s.attached[k])
      OBVIOUS
    <3>1. CASE k = 0
      BY <1>2, <1>4, <2>1, <2>3, <2>4, <3>1
    <3>2. CASE k # 0
      <4>1. k - 1 \in 0..m /\ k - 1 # m /\ h[k - 1] = g[k - 1]
        BY <1>2, <2>4, <3>2
      <4>2. CASE k = m
        BY <2>4, <3>2, <4>1, <4>2
      <4>3. CASE k # m
        <5>1. k \in 0..(m - 1)
          BY <1>2, <4>3
        <5> QED
          BY <2>3, <2>4, <3>2, <4>1, <4>3, <5>1
      <4> QED
        BY <4>2, <4>3
    <3> QED
      BY <3>1, <3>2
  <2>7. h = Plans(s, m, h)
    BY <2>5, <2>6 DEF Plans
  <2> QED
    BY <1>2, <2>7
<1> QED
  BY <1>3, <1>4

\* So the plan of the files is the last of them.
LEMMA PlanIsLast ==
  ASSUME NEW s, Len(s.attached) \in Nat
  PROVE  \E g : g = Plans(s, Len(s.attached), g) /\ file_plan(s) = g[Len(s.attached)]
<1> DEFINE n == Len(s.attached)
           f == CHOOSE g : g = [k \in 0..n |-> IF k = 0 THEN NoPlan ELSE with_attachment(s, g[k - 1], s.attached[k])]
<1>1. file_plan(s) = f[n]
  BY DEF file_plan
<1>2. f = CHOOSE g : g = Plans(s, n, g)
  BY DEF Plans
<1>3. f = Plans(s, n, f)
  BY <1>2, PlansExist
<1> QED
  BY <1>1, <1>3

\* A name is taken once.
LEMMA NameIsFree ==
  ASSUME NEW taken, NEW c, NEW a, NEW n \in unique_target_name(taken, c, a)
  PROVE  <<c, a.record, n>> \notin taken
<1> DEFINE free == {i \in 1..3 : <<c, a.record, candidates(a)[i]>> \notin taken}
<1>1. free # {} /\ n = candidates(a)[CHOOSE i \in free : \A j \in free : i <= j]
  BY DEF unique_target_name
<1>2. \E i \in free : \A j \in free : i <= j
  <2>1. CASE 1 \in free
    BY <2>1
  <2>2. CASE 1 \notin free /\ 2 \in free
    BY <2>2
  <2>3. CASE 1 \notin free /\ 2 \notin free
    <3>1. \A i \in free : i = 3
      BY <2>3
    <3>2. QED
      BY <1>1, <3>1
  <2>4. QED
    BY <2>1, <2>2, <2>3
<1>3. (CHOOSE i \in free : \A j \in free : i <= j) \in free
  BY <1>2
<1>4. PICK i \in free : n = candidates(a)[i]
  BY <1>1, <1>3
<1>5. QED
  BY <1>4

\* A sequence that gets one more.
LEMMA OneMore ==
  ASSUME NEW S, NEW q \in Seq(S), NEW v
  PROVE  /\ Append(q, v) \in Seq(S \cup {v}) /\ Len(q) \in Nat
         /\ DOMAIN q = 1..Len(q) /\ DOMAIN Append(q, v) = 1..(Len(q) + 1)
         /\ \A i \in 1..Len(q) : Append(q, v)[i] = q[i]
         /\ Append(q, v)[Len(q) + 1] = v
<1>1. q \in Seq(S \cup {v})
  OBVIOUS
<1>2. QED
  BY <1>1

\* The attachments that are for a record that is kept, and for a field that is.
Wanted(s, a) ==
  \E e \in Entries(s) : /\ a.model \in DOMAIN s.models /\ e.table = s.models[a.model]
                        /\ owned(s, e, a) /\ a.field \in DOMAIN e.attachments
ItemFor(s, p, a) ==
  /\ p.record = a.record /\ p.field = a.field /\ p.key = a.key
  /\ \E e \in Entries(s) : e.table = s.models[a.model] /\ e.collection = p.collection
PlacesApart(plan, taken) ==
  /\ \E S : plan \in Seq(S)
  /\ \A i \in DOMAIN plan : PlaceOf(plan[i]) \in taken
  /\ \A i, j \in DOMAIN plan : i # j => PlaceOf(plan[i]) # PlaceOf(plan[j])
InOrder(s, n, plan, upload) ==
  /\ upload \in [DOMAIN plan -> 1..n]
  /\ \A i, j \in DOMAIN plan : i < j => upload[i] < upload[j]
  /\ \A x \in 1..n : Wanted(s, s.attached[x]) <=> \E i \in DOMAIN plan : upload[i] = x
  /\ \A i \in DOMAIN plan : ItemFor(s, plan[i], s.attached[upload[i]])
PlanOk(s, n, acc) ==
  /\ acc = [plan |-> acc.plan, taken |-> acc.taken, dropped |-> acc.dropped, refused |-> acc.refused]
  /\ acc.refused \in BOOLEAN
  /\ ~acc.refused => /\ PlacesApart(acc.plan, acc.taken)
                     /\ \E upload : InOrder(s, n, acc.plan, upload)

\* With no attachment there is no file.
LEMMA NothingPlanned ==
  ASSUME NEW s PROVE PlanOk(s, 0, NoPlan)
<1>1. NoPlan.plan = <<>> /\ NoPlan.taken = {} /\ ~NoPlan.refused
  BY DEF NoPlan
<1>2. PlacesApart(<<>>, {})
  <2>1. <<>> \in Seq({}) /\ DOMAIN <<>> = {}
    OBVIOUS
  <2>2. QED
    BY <2>1 DEF PlacesApart
<1>3. InOrder(s, 0, <<>>, <<>>)
  BY DEF InOrder
<1>4. QED
  BY <1>1, <1>2, <1>3 DEF PlanOk, NoPlan

\* An attachment nobody wants leaves the plan as it is.
LEMMA PassedOver ==
  ASSUME NEW s, NEW n \in Nat, NEW plan, NEW upload, InOrder(s, n, plan, upload),
         ~Wanted(s, s.attached[n + 1])
  PROVE  InOrder(s, n + 1, plan, upload)
<1>1. upload \in [DOMAIN plan -> 1..(n + 1)]
  BY DEF InOrder
<1>2. \A x \in 1..(n + 1) : Wanted(s, s.attached[x]) <=> \E i \in DOMAIN plan : upload[i] = x
  <2> SUFFICES ASSUME NEW x \in 1..(n + 1)
               PROVE  Wanted(s, s.attached[x]) <=> \E i \in DOMAIN plan : upload[i] = x
    OBVIOUS
  <2>1. CASE x = n + 1
    <3>1. \A i \in DOMAIN plan : upload[i] # n + 1
      BY DEF InOrder
    <3>2. QED
      BY <2>1, <3>1
  <2>2. CASE x # n + 1
    <3>1. x \in 1..n
      BY <2>2
    <3>2. QED
      BY <3>1 DEF InOrder
  <2>3. QED
    BY <2>1, <2>2
<1>3. QED
  BY <1>1, <1>2 DEF InOrder

\* One that is wanted is the last of the plan.
LEMMA PutLast ==
  ASSUME NEW s, NEW n \in Nat, NEW S, NEW plan \in Seq(S), NEW upload, InOrder(s, n, plan, upload),
         Wanted(s, s.attached[n + 1]), NEW p, ItemFor(s, p, s.attached[n + 1])
  PROVE  \E up : InOrder(s, n + 1, Append(plan, p), up)
<1> DEFINE m == Len(plan)
           q == Append(plan, p)
           up == [i \in 1..(m + 1) |-> IF i = m + 1 THEN n + 1 ELSE upload[i]]
<1>1. /\ m \in Nat /\ DOMAIN plan = 1..m /\ DOMAIN q = 1..(m + 1)
      /\ \A i \in 1..m : q[i] = plan[i]
      /\ q[m + 1] = p
  BY OneMore
<1> HIDE DEF m, q
<1>2. /\ up[m + 1] = n + 1
      /\ \A i \in 1..m : up[i] = upload[i] /\ upload[i] \in 1..n
  BY <1>1 DEF InOrder
<1>3. up \in [1..(m + 1) -> 1..(n + 1)]
  BY <1>1 DEF InOrder
<1> HIDE DEF up
<1>4. ASSUME NEW i \in 1..(m + 1), NEW j \in 1..(m + 1), i < j PROVE up[i] < up[j]
  <2>1. i \in 1..m /\ up[i] = upload[i] /\ upload[i] \in 1..n
    BY <1>1, <1>2, <1>4
  <2>2. CASE j = m + 1
    BY <1>2, <2>1, <2>2
  <2>3. CASE j # m + 1
    <3>1. j \in 1..m
      BY <1>1, <2>3
    <3>2. QED
      BY <1>1, <1>2, <1>4, <2>1, <3>1 DEF InOrder
  <2>4. QED
    BY <2>2, <2>3
<1>5. ASSUME NEW x \in 1..(n + 1)
      PROVE  Wanted(s, s.attached[x]) <=> \E i \in 1..(m + 1) : up[i] = x
  <2>1. CASE x = n + 1
    <3>1. m + 1 \in 1..(m + 1)
      BY <1>1
    <3>2. QED
      BY <1>2, <2>1, <3>1
  <2>2. CASE x # n + 1
    <3>1. x \in 1..n
      BY <2>2
    <3>2. Wanted(s, s.attached[x]) <=> \E i \in 1..m : upload[i] = x
      BY <1>1, <3>1 DEF InOrder
    <3>3. \A i \in 1..(m + 1) : i = m + 1 \/ i \in 1..m
      BY <1>1
    <3>4. \A i \in 1..m : i \in 1..(m + 1)
      BY <1>1
    <3>5. QED
      BY <1>2, <2>2, <3>2, <3>3, <3>4
  <2>3. QED
    BY <2>1, <2>2
<1>6. ASSUME NEW i \in 1..(m + 1) PROVE ItemFor(s, q[i], s.attached[up[i]])
  <2>1. CASE i = m + 1
    BY <1>1, <1>2, <2>1
  <2>2. CASE i # m + 1
    <3>1. i \in 1..m
      BY <1>1, <2>2
    <3>2. QED
      BY <1>1, <1>2, <3>1 DEF InOrder
  <2>3. QED
    BY <2>1, <2>2
<1>7. InOrder(s, n + 1, q, up)
  BY <1>1, <1>3, <1>4, <1>5, <1>6 DEF InOrder
<1>8. QED
  BY <1>7 DEF q

-----------------------------------------------------------------------------
\* What with_attachment makes of an attachment.
LEMMA OneMoreAttachment ==
  ASSUME NEW s, SnapshotFormed(s), NEW n \in Nat, NEW acc, PlanOk(s, n, acc)
  PROVE  PlanOk(s, n + 1, with_attachment(s, acc, s.attached[n + 1]))
<1> DEFINE a == s.attached[n + 1]
           new == with_attachment(s, acc, a)
<1>1. /\ acc = [plan |-> acc.plan, taken |-> acc.taken, dropped |-> acc.dropped, refused |-> acc.refused]
      /\ acc.refused \in BOOLEAN
      /\ ~acc.refused => /\ PlacesApart(acc.plan, acc.taken)
                         /\ \E upload : InOrder(s, n, acc.plan, upload)
  BY DEF PlanOk
<1>2. ASSUME NEW b, b = [acc EXCEPT !.refused = TRUE] PROVE PlanOk(s, n + 1, b)
  <2>1. b = [plan |-> b.plan, taken |-> b.taken, dropped |-> b.dropped, refused |-> b.refused] /\ b.refused
    BY <1>1, <1>2
  <2>2. QED
    BY <2>1 DEF PlanOk
<1>3. ASSUME NEW b, b.plan = acc.plan, b.taken = acc.taken, b.refused = acc.refused,
             b = [plan |-> b.plan, taken |-> b.taken, dropped |-> b.dropped, refused |-> b.refused],
             ~Wanted(s, a)
      PROVE  PlanOk(s, n + 1, b)
  <2>1. ASSUME NEW upload, InOrder(s, n, acc.plan, upload) PROVE InOrder(s, n + 1, acc.plan, upload)
    BY <1>3, <2>1, PassedOver
  <2>2. QED
    BY <1>1, <1>3, <2>1 DEF PlanOk
<1>4. CASE a.model \notin DOMAIN s.models
  BY <1>2, <1>4 DEF with_attachment
<1>5. CASE a.model \in DOMAIN s.models /\ EntryFor(s, a) = {}
  <2>1. ~Wanted(s, a)
    BY <1>5 DEF Wanted, EntryFor
  <2>2. new = acc
    BY <1>5 DEF with_attachment
  <2>3. PlanOk(s, n + 1, acc)
    BY <1>1, <1>3, <2>1
  <2>4. QED
    BY <2>2, <2>3
<1>6. CASE a.model \in DOMAIN s.models /\ EntryFor(s, a) # {}
  <2> DEFINE e == CHOOSE x \in EntryFor(s, a) : TRUE
  <2>1. e \in EntryFor(s, a)
    BY <1>6
  <2>2. new = IF ~owned(s, e, a) \/ a.field \notin DOMAIN e.attachments
              THEN [acc EXCEPT !.dropped = @ \cup {<<e.collection, a.field>>}]
              ELSE with_file(s, acc, e, a)
    BY <1>6 DEF with_attachment
  <2> HIDE DEF e
  <2>3. e \in Entries(s) /\ e.table = s.models[a.model]
    BY <2>1 DEF EntryFor
  <2>4. ASSUME NEW d \in Entries(s), d.table = s.models[a.model] PROVE d = e
    BY <2>3, <2>4 DEF SnapshotFormed, Entries, ToSet
  <2>5. CASE ~owned(s, e, a) \/ a.field \notin DOMAIN e.attachments
    <3>1. ~Wanted(s, a)
      BY <2>4, <2>5 DEF Wanted
    <3>2. new = [acc EXCEPT !.dropped = @ \cup {<<e.collection, a.field>>}]
      BY <2>2, <2>5
    <3> HIDE DEF new
    <3>3. /\ new.plan = acc.plan /\ new.taken = acc.taken /\ new.refused = acc.refused
          /\ new = [plan |-> new.plan, taken |-> new.taken, dropped |-> new.dropped, refused |-> new.refused]
      BY <1>1, <3>2
    <3>4. PlanOk(s, n + 1, new)
      BY <1>3, <3>1, <3>3
    <3>5. QED
      BY <3>4 DEF new
  <2>6. CASE owned(s, e, a) /\ a.field \in DOMAIN e.attachments
    <3>1. Wanted(s, a)
      BY <1>6, <2>3, <2>6 DEF Wanted
    <3>2. new = with_file(s, acc, e, a)
      BY <2>2, <2>6
    <3> DEFINE names == unique_target_name(acc.taken, e.collection, a)
               t == CHOOSE x \in names : TRUE
               p == [collection |-> e.collection, record |-> a.record,
                     field |-> a.field, target |-> t, key |-> a.key]
    <3>3. CASE a.key \notin s.blobs \/ names = {}
      <4>1. new = [acc EXCEPT !.refused = TRUE]
        BY <3>2, <3>3 DEF with_file
      <4>2. QED
        BY <1>2, <4>1
    <3>4. CASE a.key \in s.blobs /\ names # {}
      <4>1. new = [acc EXCEPT !.taken = @ \cup {<<e.collection, a.record, t>>}, !.plan = Append(@, p)]
        BY <3>2, <3>4 DEF with_file
      <4>2. t \in names
        BY <3>4
      <4>3. <<e.collection, a.record, t>> \notin acc.taken
        BY <4>2, NameIsFree
      <4>4. PlaceOf(p) = <<e.collection, a.record, t>>
        BY DEF PlaceOf
      <4>5. ItemFor(s, p, a)
        BY <2>3 DEF ItemFor
      <4> HIDE DEF names, t, p, new
      <4>6. /\ new.plan = Append(acc.plan, p) /\ new.taken = acc.taken \cup {PlaceOf(p)}
            /\ new.refused = acc.refused
            /\ new = [plan |-> new.plan, taken |-> new.taken, dropped |-> new.dropped, refused |-> new.refused]
        BY <1>1, <4>1, <4>4
      <4>7. CASE acc.refused
        BY <4>6, <4>7 DEF PlanOk, new
      <4>8. CASE ~acc.refused
        <5>1. PICK S : acc.plan \in Seq(S)
          BY <1>1, <4>8 DEF PlacesApart
        <5>2. PICK upload : InOrder(s, n, acc.plan, upload)
          BY <1>1, <4>8
        <5>3. \E up : InOrder(s, n + 1, Append(acc.plan, p), up)
          BY <3>1, <4>5, <5>1, <5>2, PutLast
        <5>4. PlacesApart(Append(acc.plan, p), acc.taken \cup {PlaceOf(p)})
          <6>1. /\ Append(acc.plan, p) \in Seq(S \cup {p}) /\ Len(acc.plan) \in Nat
                /\ DOMAIN acc.plan = 1..Len(acc.plan)
                /\ DOMAIN Append(acc.plan, p) = 1..(Len(acc.plan) + 1)
                /\ \A i \in 1..Len(acc.plan) : Append(acc.plan, p)[i] = acc.plan[i]
                /\ Append(acc.plan, p)[Len(acc.plan) + 1] = p
            BY <5>1, OneMore
          <6> DEFINE q == Append(acc.plan, p)
                     m == Len(acc.plan)
          <6> HIDE DEF q, m
          <6>2. /\ q \in Seq(S \cup {p}) /\ m \in Nat /\ DOMAIN q = 1..(m + 1)
                /\ \A i \in 1..m : q[i] = acc.plan[i] /\ PlaceOf(acc.plan[i]) \in acc.taken
                /\ \A i, j \in 1..m : i # j => PlaceOf(acc.plan[i]) # PlaceOf(acc.plan[j])
                /\ q[m + 1] = p
            BY <1>1, <4>8, <6>1 DEF PlacesApart, q, m
          <6>3. \A i \in 1..(m + 1) : i = m + 1 \/ i \in 1..m
            BY <6>2
          <6>4. \A i \in DOMAIN q : PlaceOf(q[i]) \in acc.taken \cup {PlaceOf(p)}
            BY <6>2, <6>3
          <6>5. PlaceOf(p) \notin acc.taken
            BY <4>3, <4>4
          <6>6. \A i, j \in DOMAIN q : i # j => PlaceOf(q[i]) # PlaceOf(q[j])
            BY <6>2, <6>3, <6>5
          <6>7. PlacesApart(q, acc.taken \cup {PlaceOf(p)})
            BY <6>2, <6>4, <6>6 DEF PlacesApart
          <6>8. QED
            BY <6>7 DEF q
        <5>5. QED
          BY <4>6, <4>8, <5>3, <5>4 DEF PlanOk, new
      <4>9. QED
        BY <1>1, <4>7, <4>8
    <3>5. QED
      BY <3>3, <3>4
  <2>7. QED
    BY <2>5, <2>6
<1>7. QED
  BY <1>4, <1>5, <1>6

\* So it is with every prefix of the attachments.
LEMMA PlansAreOk ==
  ASSUME NEW s, SnapshotFormed(s), NEW g, g = Plans(s, Len(s.attached), g),
         NEW n \in 0..Len(s.attached)
  PROVE  PlanOk(s, n, g[n])
<1>1. Len(s.attached) \in Nat
  BY DEF SnapshotFormed
<1> DEFINE m == Len(s.attached)
           S == {k \in Nat : k \in 0..m /\ ~PlanOk(s, k, g[k])}
<1>2. \A k \in 0..m : g[k] = IF k = 0 THEN NoPlan ELSE with_attachment(s, g[k - 1], s.attached[k])
  BY DEF Plans
<1> HIDE DEF m
<1> SUFFICES ASSUME S # {} PROVE FALSE
  BY <1>1 DEF m
<1>3. PICK k \in S : \A l \in S : ~(l < k)
  <2>1. \E x \in S : \A y \in S : <<y, x>> \notin OpToRel(<, Nat)
    BY WFMin, NatLessThanWellFounded, Zenon
  <2> QED
    BY <2>1, Zenon DEF OpToRel
<1>4. CASE k = 0
  BY <1>2, <1>3, <1>4, NothingPlanned
<1>5. CASE k # 0
  <2>1. k - 1 \in Nat /\ k - 1 \in 0..m /\ k - 1 < k /\ (k - 1) + 1 = k
    BY <1>1, <1>3, <1>5 DEF m
  <2>2. PlanOk(s, k - 1, g[k - 1])
    BY <1>3, <2>1
  <2>3. PlanOk(s, k, with_attachment(s, g[k - 1], s.attached[k]))
    BY <2>1, <2>2, OneMoreAttachment
  <2>4. g[k] = with_attachment(s, g[k - 1], s.attached[k])
    BY <1>2, <1>3, <1>5
  <2>5. QED
    BY <1>3, <2>3, <2>4
<1>6. QED
  BY <1>4, <1>5

\* And with all of them.
LEMMA FilePlanOk ==
  ASSUME NEW s, SnapshotFormed(s)
  PROVE  PlanOk(s, Len(s.attached), file_plan(s))
<1>1. Len(s.attached) \in Nat
  BY DEF SnapshotFormed
<1>2. PICK g : g = Plans(s, Len(s.attached), g) /\ file_plan(s) = g[Len(s.attached)]
  BY <1>1, PlanIsLast
<1>3. PlanOk(s, Len(s.attached), g[Len(s.attached)])
  BY <1>1, <1>2, PlansAreOk
<1>4. QED
  BY <1>2, <1>3

\* The records a collection has are those of its rows.
LEMMA IdsAre ==
  ASSUME SnapshotFormed(db), Whole(db, rowOut), NEW e \in Entries(db), NEW i
  PROVE  i \in IdsOf(e.collection) <=> \E r \in Rows(db, e) : r.id.v = i
<1>1. ASSUME NEW r \in Rows(db, e)
      PROVE  /\ build_record(e, r, rowOut.plan) \in ToSet(rowOut.data[e.collection])
             /\ build_record(e, r, rowOut.plan).id = r.id
  BY RecordsAre, IdKept
<1>2. \A c \in ToSet(rowOut.data[e.collection]) : \E r \in Rows(db, e) : c = build_record(e, r, rowOut.plan)
  BY RecordsAre
<1>3. QED
  BY <1>1, <1>2 DEF IdsOf

\* Every file arrives, in a place of its own.
LEMMA AllServed ==
  ASSUME SnapshotFormed(db), Whole(db, rowOut)
  PROVE  PlacesDiffer /\ FilesArrive /\ FilesNamed
<1>1. /\ DOMAIN db.attached = 1..Len(db.attached)
      /\ PlacesApart(rowOut.plan, file_plan(db).taken)
      /\ \E upload : InOrder(db, Len(db.attached), rowOut.plan, upload)
  <2>1. PlanOk(db, Len(db.attached), file_plan(db)) /\ ~file_plan(db).refused
        /\ rowOut.plan = file_plan(db).plan
    BY FilePlanOk DEF Whole, Filed
  <2>2. QED
    BY <2>1 DEF PlanOk, SnapshotFormed
<1>2. PlacesDiffer
  BY <1>1 DEF PlacesApart, PlacesDiffer
<1>3. FilesNamed
  BY <1>1, AllNamed DEF PlacesApart
<1>4. \A x \in DOMAIN db.attached : Arrives(db.attached[x]) <=> Wanted(db, db.attached[x])
  BY IdsAre DEF Arrives, Wanted, owned
<1>5. FilesArrive
  <2>1. PICK upload : InOrder(db, Len(db.attached), rowOut.plan, upload)
    BY <1>1
  <2>2. upload \in [DOMAIN rowOut.plan -> DOMAIN db.attached]
    BY <1>1, <2>1 DEF InOrder
  <2>3. \A x \in DOMAIN db.attached :
          Arrives(db.attached[x]) <=> \E i \in DOMAIN rowOut.plan : upload[i] = x
    BY <1>1, <1>4, <2>1 DEF InOrder
  <2>4. \A i, j \in DOMAIN rowOut.plan : i < j => upload[i] < upload[j]
    BY <2>1 DEF InOrder
  <2>5. \A i \in DOMAIN rowOut.plan : ItemFor(db, rowOut.plan[i], db.attached[upload[i]])
    BY <2>1 DEF InOrder
  <2>6. QED
    BY <2>2, <2>3, <2>4, <2>5, Zenon DEF FilesArrive, ItemFor
<1>6. QED
  BY <1>2, <1>3, <1>5

\* The invariant says what an import needs.
LEMMA Imported ==
  ASSUME RowsInv PROVE RailsImports
<1>1. CASE ~rowOut.hashes
  BY <1>1 DEF RailsImports, ImportsWhole, FilesServed, MeaningKept
<1>2. CASE rowOut.hashes
  <2>1. SnapshotFormed(db) /\ Whole(db, rowOut)
    BY <1>2, AttestedWhole
  <2>2. RecordsTaken /\ IndexesTaken /\ LinksApart
    BY <2>1, AllTaken, AllIndexed, AllApart
  <2>3. PlacesDiffer /\ FilesArrive /\ FilesNamed
    BY <2>1, AllServed
  <2>4. MeaningKept
    BY <2>1, AllTold DEF MeaningKept
  <2>5. QED
    BY <2>2, <2>3, <2>4 DEF RailsImports, ImportsWhole, FilesServed
<1>3. QED
  BY <1>1, <1>2

(* A bundle that rails2zb attests imports to its end: every value is one its field
   takes, what is required is given, relations resolve, unique indexes over texts
   hold, no account has two identities of a provider; every attachment of a record
   that is kept arrives, in order and in a place of its own; and Booleans and
   updates say what Rails reads in the rows.                                    *)
THEOREM AttestedImports == RowsSpec => []RailsImports
<1>1. QED
  BY RowsInvHolds, Imported, PTL
==============================================================================
