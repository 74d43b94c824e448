---------------------------- MODULE SecurityProofs ----------------------------
(***************************************************************************)
(* Of the rules and the routes: what the fold of the control cubes comes   *)
(* to, for every control cube and every set of roles (a level is as high   *)
(* as the texts of the rows that bind a session let it be, and one more    *)
(* role never raises it), and from it, for every request and every other   *)
(* connection: the rows, counts and names of an answer are those its roles *)
(* may see, and only a rule turns a request away.                          *)
(*                                                                         *)
(* Of the sessions: for every set of users and commands, every clock and   *)
(* every number of logins, a dead token stays dead, and no failed or       *)
(* killed command locks anybody out.                                       *)
(***************************************************************************)
EXTENDS Routes, Sessions, TLAPS

(* The texts of the rows that a set of roles has at a place.               *)
TableTexts(control, held, c) ==
    {control[k] : k \in {j \in DOMAIN control : j[1] \in held /\ j[2] = c}}
MemberTexts(control, held, d, m) ==
    {control[k] : k \in {j \in DOMAIN control : j[1] \in held /\ j[2] = d /\ j[3] = m}}

(* The level that texts come to: the most restrictive, and text that is no *)
(* level bars.                                                             *)
Follows(level, texts) ==
    /\ level \in {0, 1, 2}
    /\ level = 0 <=> \E t \in texts : t \notin {ReadText, WriteText}
    /\ level = 2 <=> \A t \in texts : t = WriteText

LEMMA ParseIs ==
  ASSUME NEW t
  PROVE  /\ Parse(t) \in {0, 1, 2}
         /\ Parse(t) = 0 <=> t \notin {ReadText, WriteText}
         /\ Parse(t) = 2 <=> t = WriteText
<1>1. CASE t = ReadText
  BY <1>1, LevelTextsDiffer DEF Parse, Read, Write, Forbidden
<1>2. CASE t = WriteText
  BY <1>2, LevelTextsDiffer DEF Parse, Read, Write, Forbidden
<1>3. CASE t \notin {ReadText, WriteText}
  BY <1>3 DEF Parse, Read, Write, Forbidden
<1> QED
  BY <1>1, <1>2, <1>3

LEMMA LowestIs ==
  ASSUME NEW L \in SUBSET {0, 1, 2}, L # {}
  PROVE  Lowest(L) \in L /\ \A l \in L : Lowest(L) <= l
<1>1. \E l \in L : \A m \in L : l <= m
  <2>1. CASE 0 \in L
    BY <2>1
  <2>2. CASE 0 \notin L /\ 1 \in L
    BY <2>2
  <2>3. CASE 0 \notin L /\ 1 \notin L
    <3>1. 2 \in L /\ \A m \in L : m = 2
      BY <2>3
    <3> QED
      BY <3>1
  <2> QED
    BY <2>1, <2>2, <2>3
<1> QED
  BY <1>1 DEF Lowest

(* A fold bars what one of its rows bars, and is read-only if one is.      *)
LEMMA StrictestIs ==
  ASSUME NEW control, NEW rows, rows # {}
  PROVE  Follows(Strictest(control, rows), {control[k] : k \in rows})
<1> DEFINE L == {Parse(control[k]) : k \in rows}
           level == Strictest(control, rows)
<1>1. L \in SUBSET {0, 1, 2} /\ L # {}
  BY ParseIs
<1>2. level \in L /\ \A l \in L : level <= l
  BY <1>1, LowestIs DEF Strictest
<1>3. level \in {0, 1, 2}
  BY <1>1, <1>2
<1>4. PICK k \in rows : level = Parse(control[k])
  BY <1>2
<1>5. \A j \in rows : level <= Parse(control[j])
  BY <1>2
<1>6. level = 0 <=> \E j \in rows : Parse(control[j]) = 0
  <2>1. ASSUME NEW j \in rows, Parse(control[j]) = 0 PROVE level = 0
    <3> HIDE DEF level
    <3> QED
      BY <1>3, <1>5, <2>1
  <2> QED
    BY <1>4, <2>1
<1>7. level = 2 <=> \A j \in rows : Parse(control[j]) = 2
  <2>1. ASSUME NEW j \in rows, level = 2 PROVE Parse(control[j]) = 2
    <3>1. Parse(control[j]) \in {0, 1, 2}
      BY ParseIs
    <3> HIDE DEF level
    <3> QED
      BY <1>5, <2>1, <3>1
  <2> QED
    BY <1>4, <2>1
<1> QED
  BY <1>3, <1>6, <1>7, ParseIs DEF Follows

(* TableAccess: what LevelFor answers, in terms of the rows.               *)
LEMMA TableLevel ==
  ASSUME NEW control, NEW held, NEW c
  PROVE  Follows(LevelFor(TableRules(control, held), c), TableTexts(control, held, c))
<1> DEFINE rows == Binding(control, held)
           mine == {k \in rows : k[2] = c}
           rules == TableRules(control, held)
<1>1. TableTexts(control, held, c) = {control[k] : k \in mine}
  BY DEF TableTexts, Binding
<1>2. DOMAIN rules = {k[2] : k \in rows}
  BY DEF TableRules
<1>3. CASE mine = {}
  <2>1. c \notin DOMAIN rules
    BY <1>2, <1>3
  <2>2. LevelFor(rules, c) = 2
    BY <2>1 DEF LevelFor, Write
  <2> QED
    BY <1>1, <1>3, <2>2 DEF Follows
<1>4. CASE mine # {}
  <2>1. c \in DOMAIN rules
    BY <1>2, <1>4
  <2>2. LevelFor(rules, c) = Strictest(control, mine)
    BY <2>1 DEF LevelFor, TableRules
  <2> QED
    BY <1>1, <1>4, <2>2, StrictestIs
<1> QED
  BY <1>3, <1>4

(* DimensionAccess, the rule for a whole dimension.                        *)
LEMMA WholeLevelIs ==
  ASSUME NEW control, NEW held, NEW d
  PROVE  LET rules == DimensionRules(control, held)
         IN  /\ Follows(WholeLevel(rules, d), MemberTexts(control, held, d, AllMembers))
             /\ d \in WholeDimensions(rules) <=> WholeLevel(rules, d) = 0
<1> DEFINE all   == {k \in Binding(control, held) : k[3] = AllMembers}
           mine  == {k \in all : k[2] = d}
           rules == DimensionRules(control, held)
<1>1. MemberTexts(control, held, d, AllMembers) = {control[k] : k \in mine}
  BY DEF MemberTexts, Binding
<1>2. rules.whole = [e \in {k[2] : k \in all} |-> Strictest(control, {k \in all : k[2] = e})]
  BY DEF DimensionRules
<1>3. DOMAIN rules.whole = {k[2] : k \in all}
  BY <1>2
<1>4. d \in WholeDimensions(rules) <=> d \in DOMAIN rules.whole /\ rules.whole[d] = 0
  BY DEF WholeDimensions, Forbidden
<1>5. CASE mine = {}
  <2>1. d \notin DOMAIN rules.whole
    BY <1>3, <1>5
  <2>2. WholeLevel(rules, d) = 2
    BY <2>1 DEF WholeLevel, Write
  <2> QED
    BY <1>1, <1>4, <1>5, <2>1, <2>2 DEF Follows
<1>6. CASE mine # {}
  <2>1. d \in DOMAIN rules.whole
    BY <1>3, <1>6
  <2>2. rules.whole[d] = Strictest(control, mine)
    BY <1>2, <2>1
  <2>3. WholeLevel(rules, d) = Strictest(control, mine)
    BY <2>1, <2>2 DEF WholeLevel
  <2> QED
    BY <1>1, <1>4, <1>6, <2>1, <2>2, <2>3, StrictestIs
<1> QED
  BY <1>5, <1>6

(* DimensionAccess, the rules for a member.                                *)
LEMMA MemberRuleIs ==
  ASSUME NEW control, NEW held, NEW d, NEW m
  PROVE  LET rules == DimensionRules(control, held)
             texts == MemberTexts(control, held, d, m)
         IN  /\ <<d, m>> \in DOMAIN rules.members <=> m # AllMembers /\ texts # {}
             /\ <<d, m>> \in DOMAIN rules.members => Follows(rules.members[<<d, m>>], texts)
<1> DEFINE rows  == Binding(control, held)
           own   == rows \ {k \in rows : k[3] = AllMembers}
           mine  == {k \in own : <<k[2], k[3]>> = <<d, m>>}
           rules == DimensionRules(control, held)
<1>1. rules.members = [n \in {<<k[2], k[3]>> : k \in own} |->
                           Strictest(control, {k \in own : <<k[2], k[3]>> = n})]
  BY DEF DimensionRules
<1>2. <<d, m>> \in DOMAIN rules.members <=> mine # {}
  BY <1>1
<1>3. m # AllMembers => MemberTexts(control, held, d, m) = {control[k] : k \in mine}
  BY DEF MemberTexts, Binding
<1>4. m = AllMembers => mine = {}
  OBVIOUS
<1>5. mine # {} => rules.members[<<d, m>>] = Strictest(control, mine)
  BY <1>1, <1>2
<1>6. mine # {} => m # AllMembers
  BY <1>4
<1>7. mine # {} <=> m # AllMembers /\ MemberTexts(control, held, d, m) # {}
  BY <1>3, <1>6
<1>8. mine # {} => Follows(rules.members[<<d, m>>], MemberTexts(control, held, d, m))
  BY <1>3, <1>5, <1>6, StrictestIs
<1> QED
  BY <1>2, <1>7, <1>8

-------------------------------------------------------------------------------
(* Default accept: a cube that no row of the session's roles names may be  *)
(* read and written.                                                       *)
THEOREM DefaultAccept ==
  ASSUME NEW control, NEW held, NEW c, TableTexts(control, held, c) = {}
  PROVE  LevelFor(TableRules(control, held), c) = Write
  BY TableLevel DEF Write, Follows

(* A text that is no level bars the cube, whatever the other rows say.     *)
THEOREM FailClosed ==
  ASSUME NEW control, NEW held, NEW c,
         NEW t \in TableTexts(control, held, c), t \notin {ReadText, WriteText}
  PROVE  ~CanRead(TableRules(control, held), c)
<1>1. LevelFor(TableRules(control, held), c) = 0
  BY TableLevel DEF Follows
<1> QED
  BY <1>1 DEF CanRead, Read

(* More roles are more restrictions: no level for a cube, or for a whole   *)
(* dimension, rises when a session holds one role more.                    *)
THEOREM MoreRolesAllowNoMore ==
  ASSUME NEW control, NEW few, NEW many, few \subseteq many, NEW c
  PROVE  /\ LevelFor(TableRules(control, many), c) <= LevelFor(TableRules(control, few), c)
         /\ WholeLevel(DimensionRules(control, many), c) <= WholeLevel(DimensionRules(control, few), c)
<1>1. TableTexts(control, few, c) \subseteq TableTexts(control, many, c)
  BY DEF TableTexts
<1>2. MemberTexts(control, few, c, AllMembers) \subseteq MemberTexts(control, many, c, AllMembers)
  BY DEF MemberTexts
<1> DEFINE tm == LevelFor(TableRules(control, many), c)
           tf == LevelFor(TableRules(control, few), c)
           wm == WholeLevel(DimensionRules(control, many), c)
           wf == WholeLevel(DimensionRules(control, few), c)
<1>3. tm \in {0, 1, 2} /\ tf \in {0, 1, 2} /\ (tf = 0 => tm = 0) /\ (tm = 2 => tf = 2)
  BY <1>1, TableLevel DEF Follows
<1>4. wm \in {0, 1, 2} /\ wf \in {0, 1, 2} /\ (wf = 0 => wm = 0) /\ (wm = 2 => wf = 2)
  BY <1>2, WholeLevelIs DEF Follows
<1> HIDE DEF tm, tf, wm, wf
<1>5. tm <= tf /\ wm <= wf
  BY <1>3, <1>4
<1> QED
  BY <1>5 DEF tm, tf, wm, wf

(* DeniedMembers, in terms of the rows: a rule for the whole dimension is  *)
(* no rule for a member.                                                   *)
LEMMA DeniedMembersAre ==
  ASSUME NEW control, NEW held, NEW d, NEW m
  PROVE  m \in DeniedMembers(DimensionRules(control, held), d) <=>
             /\ m # AllMembers
             /\ \E t \in MemberTexts(control, held, d, m) : t \notin {ReadText, WriteText}
<1> DEFINE rules == DimensionRules(control, held)
           own   == Binding(control, held) \ {k \in Binding(control, held) : k[3] = AllMembers}
<1>1. DOMAIN rules.members = {<<k[2], k[3]>> : k \in own}
  BY DEF DimensionRules
<1>2. m \in DeniedMembers(rules, d) <=>
          <<d, m>> \in DOMAIN rules.members /\ rules.members[<<d, m>>] = 0
  <2>1. ASSUME NEW n \in DOMAIN rules.members, n[1] = d, n[2] = m PROVE n = <<d, m>>
    BY <1>1, <2>1
  <2> QED
    BY <2>1 DEF DeniedMembers, Forbidden
<1> QED
  BY <1>2, MemberRuleIs DEF Follows

(* A member that is denied to a session stays denied when it holds more.   *)
THEOREM DeniedStaysDenied ==
  ASSUME NEW control, NEW few, NEW many, few \subseteq many, NEW d
  PROVE  DeniedMembers(DimensionRules(control, few), d)
             \subseteq DeniedMembers(DimensionRules(control, many), d)
<1> SUFFICES ASSUME NEW m \in DeniedMembers(DimensionRules(control, few), d)
             PROVE  m \in DeniedMembers(DimensionRules(control, many), d)
  OBVIOUS
<1>1. MemberTexts(control, few, d, m) \subseteq MemberTexts(control, many, d, m)
  BY DEF MemberTexts
<1> QED
  BY <1>1, DeniedMembersAre

-------------------------------------------------------------------------------
(* A request, from its rules to its answer.                                *)


(* The request that is followed is a record, whatever its fields hold.     *)
QShape ==
    q = [pc |-> q.pc, request |-> q.request, held |-> q.held, table |-> q.table,
         dims |-> q.dims, answer |-> q.answer, snapshot |-> q.snapshot]

(* The rules a request is routed by are the ones its roles have now: no    *)
(* write reaches a control cube.                                           *)
RulesAreCurrent ==
    /\ q.table = TableRules(cells[TableSecurity], q.held)
    /\ q.dims = DimensionRules(cells[DimensionSecurity], q.held)

IInv ==
    /\ QShape
    /\ DOMAIN cells = Cubes
    /\ q.pc \in {"idle", "rules", "route", "done"}
    /\ q.pc # "idle" => q.request \in Requests
    /\ q.pc \in {"rules", "route"} => ~Rejected(q.request)
    /\ q.pc = "route" => RulesAreCurrent
    /\ AnswersObeyTheRules
    /\ RefusalsHaveARule

(* The two ways to say where the texts of a place come from.               *)
LEMMA RowsAreTexts ==
  /\ \A c : TableRows(c) = TableTexts(cells[TableSecurity], q.held, c)
  /\ \A d, m : MemberRows(d, m) = MemberTexts(cells[DimensionSecurity], q.held, d, m)
  BY DEF TableRows, TableTexts, MemberRows, MemberTexts

LEMMA LevelsAndTexts ==
  ASSUME NEW level, NEW texts, Follows(level, texts)
  PROVE  /\ ~(level >= Read) <=> Bars(texts)
         /\ level < Write <=> ReadOnly(texts)
         /\ level = 0 <=> Bars(texts)
<1>1. level \in {0, 1, 2}
  BY DEF Follows
<1>2. level = 0 <=> Bars(texts)
  BY DEF Follows, Bars
<1>3. level = 2 <=> ~ReadOnly(texts)
  BY DEF Follows, ReadOnly
<1>4. (~(level >= Read) <=> level = 0) /\ (level < Write <=> level # 2)
  BY <1>1 DEF Read, Write
<1> QED
  BY <1>2, <1>3, <1>4

(* hidden and denied_leaf_ids hide what the rows bar, and nothing else.    *)
LEMMA HiddenIsClosed ==
  ASSUME RulesAreCurrent, NEW c
  PROVE  Hidden(c) <=> Closed(c)
<1>1. ~CanRead(q.table, c) <=> Bars(TableRows(c))
  BY RowsAreTexts, TableLevel, LevelsAndTexts DEF RulesAreCurrent, CanRead
<1>2. \A d : d \in WholeDimensions(q.dims) <=> Bars(MemberRows(d, AllMembers))
  BY RowsAreTexts, WholeLevelIs, LevelsAndTexts DEF RulesAreCurrent
<1>3. HidesCube(q.dims, c) <=>
          c \in Cubes /\ \E a \in DOMAIN DimensionsOf[c] : Bars(MemberRows(DimensionsOf[c][a], AllMembers))
  BY <1>2, CubesHaveDimensions DEF HidesCube
<1> QED
  BY <1>1, <1>3 DEF Hidden, Closed

LEMMA DeniedIsConcealed ==
  ASSUME RulesAreCurrent, NEW d, NEW m
  PROVE  m \in DeniedLeaves(d) <=> Concealed(d, m)
<1>1. \A n : n \in DeniedMembers(q.dims, d) <=> n # AllMembers /\ Bars(MemberRows(d, n))
  BY RowsAreTexts, DeniedMembersAre DEF RulesAreCurrent, Bars
<1>2. m \in DeniedLeaves(d) <=> \E n \in DeniedMembers(q.dims, d) : m = n \/ m \in LeavesOf(d, n)
  BY DEF DeniedLeaves
<1>3. ASSUME NEW n, m \in LeavesOf(d, n)
      PROVE  m = n \/ (<<d, n>> \in DOMAIN Under /\ m \in Under[<<d, n>>])
  BY <1>3 DEF LeavesOf
<1>4. ASSUME NEW u \in DOMAIN Under, u[1] = d, m \in Under[u]
      PROVE  m \in LeavesOf(d, u[2])
  <2>1. u = <<d, u[2]>>
    BY <1>4, RollupsAreMembers
  <2> QED
    BY <2>1, <1>4 DEF LeavesOf
<1>5. ASSUME m \in DeniedLeaves(d) PROVE Concealed(d, m)
  <2>1. PICK n \in DeniedMembers(q.dims, d) : m = n \/ m \in LeavesOf(d, n)
    BY <1>2, <1>5
  <2>2. n # AllMembers /\ Bars(MemberRows(d, n))
    BY <1>1, <2>1
  <2>3. CASE m = n
    BY <2>2, <2>3 DEF Concealed
  <2>4. CASE <<d, n>> \in DOMAIN Under /\ m \in Under[<<d, n>>]
    BY <2>2, <2>4 DEF Concealed
  <2> QED
    BY <1>3, <2>1, <2>3, <2>4
<1>6. ASSUME Concealed(d, m) PROVE m \in DeniedLeaves(d)
  BY <1>1, <1>2, <1>4, <1>6 DEF Concealed
<1> QED
  BY <1>5, <1>6

LEMMA VisibleIsInSight ==
  ASSUME RulesAreCurrent, NEW c
  PROVE  Visible(c) = {k \in DOMAIN cells[c] : \A a \in DOMAIN k : ~Concealed(DimensionsOf[c][a], k[a])}
  BY DeniedIsConcealed DEF Visible

(* A batch passes the vetoes if the rows let every cell of it be written.  *)
LEMMA VetoedIsNotWritable ==
  ASSUME RulesAreCurrent, NEW r
  PROVE  Writable(r) <=> r.dataset \notin ControlCubes /\ ~Vetoed(r.dataset, r)
<1> DEFINE c == r.dataset
           Own(d, m) == IF m = AllMembers THEN {} ELSE MemberRows(d, m)
<1>1. LevelFor(q.table, c) < Write <=> ReadOnly(TableRows(c))
  BY RowsAreTexts, TableLevel, LevelsAndTexts DEF RulesAreCurrent
<1>2. ASSUME NEW d
      PROVE  WholeLevel(q.dims, d) < Write <=> ReadOnly(MemberRows(d, AllMembers))
  BY RowsAreTexts, WholeLevelIs, LevelsAndTexts DEF RulesAreCurrent
<1>3. ASSUME NEW d
      PROVE  ~CanCreateMember(q.dims, d) <=> ReadOnly(MemberRows(d, AllMembers))
  <2>1. Follows(WholeLevel(q.dims, d), MemberRows(d, AllMembers))
    BY RowsAreTexts, WholeLevelIs DEF RulesAreCurrent
  <2>2. WholeLevel(q.dims, d) \in {0, 1, 2}
    BY <2>1 DEF Follows
  <2>3. WholeLevel(q.dims, d) >= Write <=> ~(WholeLevel(q.dims, d) < Write)
    BY <2>2 DEF Write
  <2> QED
    BY <1>2, <2>3 DEF CanCreateMember
<1>4. ASSUME NEW d, NEW m
      PROVE  ReadLevelFor(q.dims, d, m) < Write <=>
                 ReadOnly(IF Own(d, m) # {} THEN Own(d, m) ELSE MemberRows(d, AllMembers))
  <2>1. <<d, m>> \in DOMAIN q.dims.members <=> Own(d, m) # {}
    BY RowsAreTexts, MemberRuleIs DEF RulesAreCurrent
  <2>2. CASE Own(d, m) # {}
    <3>1. Own(d, m) = MemberRows(d, m)
      BY <2>2
    <3>2. Follows(q.dims.members[<<d, m>>], MemberRows(d, m))
      BY <2>1, <2>2, RowsAreTexts, MemberRuleIs DEF RulesAreCurrent
    <3> QED
      BY <2>1, <2>2, <3>1, <3>2, LevelsAndTexts DEF ReadLevelFor
  <2>3. CASE Own(d, m) = {}
    BY <1>2, <2>1, <2>3 DEF ReadLevelFor
  <2> QED
    BY <2>2, <2>3
<1> QED
  BY <1>1, <1>3, <1>4, HiddenIsClosed DEF Writable, Vetoed

-------------------------------------------------------------------------------
(* What a step leaves to the rules.                                        *)
ControlsStand ==
    /\ cells'[TableSecurity] = cells[TableSecurity]
    /\ cells'[DimensionSecurity] = cells[DimensionSecurity]
    /\ DOMAIN cells' = DOMAIN cells
    /\ auth' = auth

(* The rules of the roles held, as the properties read them.               *)
LEMMA RulesStand ==
  ASSUME ControlsStand, q'.held = q.held
  PROVE  /\ \A c : Closed(c)' <=> Closed(c)
         /\ \A d, m : Concealed(d, m)' <=> Concealed(d, m)
         /\ \A r : Writable(r)' <=> Writable(r)
<1>1. \A c : TableRows(c)' = TableRows(c)
  BY DEF TableRows, ControlsStand
<1>2. \A d, m : MemberRows(d, m)' = MemberRows(d, m)
  BY DEF MemberRows, ControlsStand
<1>3. \A c : Closed(c)' <=> Closed(c)
  BY <1>1, <1>2 DEF Closed
<1>4. \A d, m : Concealed(d, m)' <=> Concealed(d, m)
  BY <1>2 DEF Concealed
<1>5. \A r : Writable(r)' <=> Writable(r)
  BY <1>1, <1>2, <1>3 DEF Writable
<1> QED
  BY <1>3, <1>4, <1>5

(* A write that is no control cube's leaves the rules alone.               *)
LEMMA DataWritesKeepTheRules ==
  ASSUME DOMAIN cells = Cubes, auth' = auth,
         NEW c \in Cubes \ ControlCubes, NEW ks, NEW v, Put(c, ks, v)
  PROVE  ControlsStand
  BY ControlCubesExist DEF ControlsStand, ControlCubes, Put

(* The request after its answer.                                           *)
LEMMA Settled ==
  ASSUME IInv, q.pc = "route", NEW answer, Reply(answer), ControlsStand
  PROVE  /\ QShape'
         /\ q'.pc = "done" /\ q'.request = q.request /\ q'.held = q.held
         /\ q'.answer = answer /\ q'.snapshot = cells
         /\ \A c : InSight(c)' = Visible(c)
<1>1. q' = [pc |-> "done", request |-> q.request, held |-> q.held, table |-> q.table,
            dims |-> q.dims, answer |-> answer, snapshot |-> cells]
  BY DEF Reply, IInv, QShape
<1>2. \A c : InSight(c)' = Visible(c)
  BY <1>1, RulesStand, VisibleIsInSight DEF InSight, IInv
<1> QED
  BY <1>1, <1>2 DEF QShape

(* A refusal keeps the invariant if a rule is behind it.                   *)
LEMMA RefusalKeepsIInv ==
  ASSUME IInv, q.pc = "route", NEW code, code # "ok", Refuse(code), ControlsStand,
         /\ Tables(q.request) \subseteq Cubes
         /\ code = "unknown_dataset" \/ (code = "forbidden" /\ q.request.route = "write")
         => \/ \E c \in Tables(q.request) : Closed(c)
            \/ q.request.route = "write" /\ ~Writable(q.request)
  PROVE  IInv'
<1> DEFINE answer == [NoAnswer EXCEPT !.code = code]
<1>1. Reply(answer)
  BY DEF Refuse
<1>2. answer.code = code
  BY DEF NoAnswer
<1> HIDE DEF answer
<1>3. /\ QShape'
      /\ q'.pc = "done" /\ q'.request = q.request /\ q'.held = q.held
      /\ q'.answer = answer
  BY <1>1, Settled
<1>4. AnswersObeyTheRules'
  BY <1>2, <1>3 DEF AnswersObeyTheRules
<1>5. PICK r : r = q.request
  OBVIOUS
<1>6. Tables(q.request)' = Tables(r) /\ Tables(q.request) = Tables(r)
  BY <1>3, <1>5
<1>7. /\ (\E c \in Tables(q.request) : Closed(c))' <=> \E c \in Tables(q.request) : Closed(c)
      /\ Writable(q.request)' <=> Writable(q.request)
  BY <1>3, <1>5, <1>6, RulesStand
<1>8. RefusalsHaveARule'
  BY <1>2, <1>3, <1>6, <1>7 DEF RefusalsHaveARule
<1>9. DOMAIN cells' = Cubes /\ (q.pc # "idle" => q.request \in Requests)'
  BY <1>3 DEF IInv, ControlsStand
<1> QED
  BY <1>3, <1>4, <1>8, <1>9 DEF IInv

(* An answer keeps it if it obeys the rules.                               *)
LEMMA AnswerKeepsIInv ==
  ASSUME IInv, q.pc = "route", NEW answer, answer.code = "ok", Reply(answer), ControlsStand,
         NEW r, r = q.request, r.route = "capabilities" \/ Obeyed(r, answer)'
  PROVE  IInv'
<1>3. /\ QShape'
      /\ q'.pc = "done" /\ q'.request = r /\ q'.held = q.held
      /\ q'.answer = answer
  BY Settled
<1>4. RefusalsHaveARule'
  BY <1>3 DEF RefusalsHaveARule
<1>5. ASSUME r.route # "capabilities", auth' PROVE r.session \notin {None, Stale}
  BY <1>5 DEF IInv, Rejected, ControlsStand
<1>6. AnswersObeyTheRules'
  BY <1>3, <1>5 DEF AnswersObeyTheRules
<1>7. DOMAIN cells' = Cubes /\ r \in Requests
  BY DEF IInv, ControlsStand
<1> QED
  BY <1>3, <1>4, <1>6, <1>7 DEF IInv

(* What an answer has to be like, read off the state it is given in.       *)
Conforms(r, a) ==
    /\ r.route = "datasets" => a.cubes = {c \in Cubes : ~Hidden(c)}
    /\ \A c \in Tables(r) : r.route \in {"describe", "sample", "sql", "query"} => ~Hidden(c)
    /\ r.route = "describe" => a.facts = Facts(r.dataset, cells[r.dataset]) /\ members' = members
    /\ r.route \in {"sql", "query"} =>
           /\ a.rows = Kept(r, Visible(r.dataset), cells)
           /\ a.joined = Attached(r, a.rows, cells)
    /\ r.route = "sample" => /\ a.rows \subseteq Visible(r.dataset)
                             /\ a.count = Cardinality(Visible(r.dataset))
                             /\ Cardinality(a.rows) =
                                    Min({r.limit, Max({a.count - r.offset, 0})})
    /\ r.route = "query" => \A m \in a.names : LeavesOf(r.domain, m) \cap DeniedLeaves(r.domain) = {}
    /\ r.route = "write" => Writable(r)

LEMMA ConformingAnswerKeepsIInv ==
  ASSUME IInv, q.pc = "route", NEW answer, answer.code = "ok", Reply(answer), ControlsStand,
         NEW r, r = q.request, r.route = "capabilities" \/ Conforms(r, answer)
  PROVE  IInv'
<1>1. RulesAreCurrent
  BY DEF IInv
<1>2. q'.held = q.held /\ q'.snapshot = cells /\ \A c : InSight(c)' = Visible(c)
  BY Settled
<1>3. \A c : Hidden(c) <=> Closed(c)'
  BY <1>1, <1>2, HiddenIsClosed, RulesStand
<1>4. \A d, m : m \in DeniedLeaves(d) <=> Concealed(d, m)'
  BY <1>1, <1>2, DeniedIsConcealed, RulesStand
<1>5. Writable(r)' <=> Writable(r)
  BY <1>2, RulesStand
<1>6. ASSUME Conforms(r, answer) PROVE Obeyed(r, answer)'
  <2>1. r.route = "datasets" => answer.cubes = {c \in Cubes : ~Closed(c)'}
    BY <1>3, <1>6 DEF Conforms
  <2>2. \A c \in Tables(r) : r.route \in {"describe", "sample", "sql", "query"} => ~Closed(c)'
    BY <1>3, <1>6 DEF Conforms
  <2>3. r.route = "query" => \A m \in answer.names : \A n \in LeavesOf(r.domain, m) :
                                 ~Concealed(r.domain, n)'
    BY <1>4, <1>6 DEF Conforms
  <2>4. r.route \in {"sql", "query"} =>
            /\ answer.rows = Kept(r, InSight(r.dataset)', q'.snapshot)
            /\ answer.joined = Attached(r, answer.rows, q'.snapshot)
    BY <1>2, <1>6 DEF Conforms
  <2>7. r.route = "describe" => answer.facts = Facts(r.dataset, q.snapshot[r.dataset])'
    <3> SUFFICES ASSUME r.route = "describe"
                 PROVE  answer.facts = Facts(r.dataset, q.snapshot[r.dataset])'
      OBVIOUS
    <3>1. members' = members /\ answer.facts = Facts(r.dataset, cells[r.dataset])
      BY <1>6 DEF Conforms
    <3>2. Facts(r.dataset, q.snapshot[r.dataset])' = Facts(r.dataset, cells[r.dataset])
      BY <1>2, <3>1 DEF Facts, Everyone
    <3> QED BY <3>1, <3>2
  <2>5. r.route = "sample" => /\ answer.rows \subseteq InSight(r.dataset)'
                             /\ answer.count = Cardinality(InSight(r.dataset)')
                             /\ Cardinality(answer.rows) =
                                    Min({r.limit, Max({answer.count - r.offset, 0})})
    BY <1>2, <1>6 DEF Conforms
  <2>6. r.route = "write" => Writable(r)'
    BY <1>5, <1>6 DEF Conforms
  <2> QED
    BY <2>1, <2>2, <2>3, <2>4, <2>5, <2>6, <2>7 DEF Obeyed
<1> QED
  BY <1>6, AnswerKeepsIInv

-------------------------------------------------------------------------------
(* One lemma per action.                                                   *)
LEMMA InitIInv == Init => IInv
  BY StartsHaveCubes DEF Init, Idle, IInv, QShape, AnswersObeyTheRules, RefusalsHaveARule, NoAnswer

LEMMA WriteElsewhereKeepsIInv ==
  ASSUME IInv, NEW w \in Writes, WriteElsewhere(w)
  PROVE  IInv'
<1>1. ControlsStand
  <2>1. w.cube \in Cubes \ ControlCubes
    BY WritesAreData
  <2> QED
    BY <2>1, DataWritesKeepTheRules DEF WriteElsewhere, IInv
<1>2. q' = q /\ q.pc # "done" /\ auth' = auth
  BY DEF WriteElsewhere
<1>3. (q.pc = "route" => RulesAreCurrent)'
  BY <1>1, <1>2 DEF IInv, RulesAreCurrent, ControlsStand
<1>4. (q.pc \in {"rules", "route"} => ~Rejected(q.request))'
  BY <1>2 DEF IInv, Rejected
<1>5. AnswersObeyTheRules' /\ RefusalsHaveARule'
  BY <1>2 DEF AnswersObeyTheRules, RefusalsHaveARule
<1>6. DOMAIN cells' = Cubes
  BY <1>1 DEF IInv, ControlsStand
<1>7. QShape'
  BY <1>2 DEF IInv, QShape
<1> QED
  BY <1>2, <1>3, <1>4, <1>5, <1>6, <1>7 DEF IInv

LEMMA AskKeepsIInv ==
  ASSUME IInv, NEW r \in Requests, Ask(r)
  PROVE  IInv'
<1>1. cells' = cells /\ auth' = auth
  BY DEF Ask
<1>2. QShape' /\ q'.request = r
  BY DEF Ask, QShape, Idle, NoAnswer
<1>3. /\ Rejected(r) => q'.pc = "done" /\ q'.answer.code = "unauthorized"
      /\ ~Rejected(r) => q'.pc = "rules"
  BY DEF Ask, Idle, NoAnswer
<1>4. Rejected(r)' <=> Rejected(r)
  BY <1>1 DEF Rejected
<1>5. AnswersObeyTheRules' /\ RefusalsHaveARule'
  BY <1>3 DEF AnswersObeyTheRules, RefusalsHaveARule
<1>6. (q.pc \in {"rules", "route"} => ~Rejected(q.request))'
  BY <1>2, <1>3, <1>4
<1> QED
  BY <1>1, <1>2, <1>3, <1>5, <1>6 DEF IInv

LEMMA ReadRulesKeepsIInv ==
  ASSUME IInv, ReadRules
  PROVE  IInv'
<1>1. q' = [pc |-> "route", request |-> q.request, held |-> q.held,
            table |-> TableRules(cells[TableSecurity], q.held),
            dims |-> DimensionRules(cells[DimensionSecurity], q.held),
            answer |-> q.answer, snapshot |-> q.snapshot]
  BY DEF IInv, QShape, ReadRules
<1>2. cells' = cells /\ auth' = auth /\ q.pc = "rules"
  BY DEF ReadRules
<1>3. QShape' /\ RulesAreCurrent'
  BY <1>1, <1>2 DEF QShape, RulesAreCurrent
<1>4. AnswersObeyTheRules' /\ RefusalsHaveARule'
  BY <1>1 DEF AnswersObeyTheRules, RefusalsHaveARule
<1>5. (q.pc \in {"rules", "route"} => ~Rejected(q.request))'
  BY <1>1, <1>2 DEF IInv, Rejected
<1> QED
  BY <1>1, <1>2, <1>3, <1>4, <1>5 DEF IInv

(* The routes that change no cell.                                         *)
LEMMA ReadersLeaveTheRules == Unchanged => ControlsStand
  BY DEF Unchanged, ControlsStand

LEMMA ReadersKeepIInv ==
  ASSUME IInv, Capabilities \/ Datasets \/ Save
  PROVE  IInv'
<1>1. ControlsStand /\ q.pc = "route"
  BY ReadersLeaveTheRules DEF Capabilities, Datasets, Save, At
<1>2. PICK r : r = q.request
  OBVIOUS
<1>3. ASSUME NEW code, Refuse(code), code = "forbidden" \/ code = "save_failed", r.route = "save"
      PROVE  IInv'
  <2>1. code # "ok" /\ code # "unknown_dataset"
    BY <1>3
  <2> QED
    BY <1>1, <1>2, <1>3, <2>1, RefusalKeepsIInv
<1>4. Ok.code = "ok"
  BY DEF Ok, NoAnswer
<1>5. CASE Capabilities
  <2>1. Reply(Ok) /\ r.route = "capabilities"
    BY <1>2, <1>5 DEF Capabilities, At
  <2> QED
    BY <1>1, <1>2, <1>4, <2>1, ConformingAnswerKeepsIInv
<1>6. CASE Datasets
  <2> DEFINE answer == [Ok EXCEPT !.cubes = {c \in Cubes : ~Hidden(c)}]
  <2>1. Reply(answer) /\ r.route = "datasets"
    BY <1>2, <1>6 DEF Datasets, At
  <2>2. answer.code = "ok" /\ answer.cubes = {c \in Cubes : ~Hidden(c)}
    BY DEF Ok, NoAnswer
  <2> HIDE DEF answer
  <2>3. Conforms(r, answer)
    BY <2>1, <2>2 DEF Conforms
  <2> QED
    BY <1>1, <1>2, <2>1, <2>2, <2>3, ConformingAnswerKeepsIInv
<1>7. CASE Save
  <2>1. r.route = "save" /\ (Reply(Ok) \/ Refuse("forbidden") \/ Refuse("save_failed"))
    BY <1>2, <1>7 DEF Save, At
  <2>2. Conforms(r, Ok)
    BY <2>1 DEF Conforms
  <2>3. ASSUME Reply(Ok) PROVE IInv'
    BY <1>1, <1>2, <1>4, <2>2, <2>3, ConformingAnswerKeepsIInv
  <2> QED
    BY <1>3, <2>1, <2>3
<1> QED
  BY <1>5, <1>6, <1>7

(* The routes that name one dataset.                                       *)
LEMMA DescribeKeepsIInv ==
  ASSUME IInv, Describe
  PROVE  IInv'
<1>1. ControlsStand /\ q.pc = "route" /\ q.request.route = "describe" /\ RulesAreCurrent
  BY ReadersLeaveTheRules DEF Describe, At, IInv
<1>2. PICK r : r = q.request
  OBVIOUS
<1> DEFINE c == r.dataset
           answer == [Ok EXCEPT !.facts = Facts(c, cells[c])]
<1>3. c \in Tables(r) /\ Tables(r) \subseteq {c, r.join} /\ r.join = None
  BY <1>1, <1>2, RequestsNameTables DEF IInv, Tables
<1>4. CASE Unknown(c)
  <2>1. Refuse("unknown_dataset")
    BY <1>2, <1>4 DEF Describe
  <2>2. Tables(r) \subseteq Cubes => Closed(c)
    BY <1>1, <1>3, <1>4, HiddenIsClosed DEF Unknown
  <2> QED
    BY <1>1, <1>2, <1>3, <2>1, <2>2, RefusalKeepsIInv
<1>5. CASE ~Unknown(c)
  <2>1. Reply(answer) /\ answer.code = "ok" /\ answer.facts = Facts(c, cells[c])
    BY <1>2, <1>5 DEF Describe, Ok, NoAnswer
  <2>4. members' = members
    BY DEF Describe, Unchanged
  <2>2. \A t \in Tables(r) : ~Hidden(t)
    BY <1>3, <1>5 DEF Unknown, Tables
  <2> HIDE DEF answer
  <2>3. Conforms(r, answer)
    BY <1>1, <1>2, <2>1, <2>2, <2>4 DEF Conforms
  <2> QED
    BY <1>1, <1>2, <2>1, <2>3, ConformingAnswerKeepsIInv
<1> QED
  BY <1>4, <1>5

LEMMA SampleKeepsIInv ==
  ASSUME IInv, Sample
  PROVE  IInv'
<1>1. ControlsStand /\ q.pc = "route" /\ q.request.route = "sample" /\ RulesAreCurrent
  BY ReadersLeaveTheRules DEF Sample, At, IInv
<1>2. PICK r : r = q.request
  OBVIOUS
<1> DEFINE c == r.dataset
<1>3. c \in Tables(r) /\ Tables(r) \subseteq {c, r.join} /\ r.join = None
  BY <1>1, <1>2, RequestsNameTables DEF IInv, Tables
<1>4. CASE Unknown(c)
  <2>1. Refuse("unknown_dataset")
    BY <1>2, <1>4 DEF Sample
  <2>2. Tables(r) \subseteq Cubes => Closed(c)
    BY <1>1, <1>3, <1>4, HiddenIsClosed DEF Unknown
  <2> QED
    BY <1>1, <1>2, <1>3, <2>1, <2>2, RefusalKeepsIInv
<1>5. CASE ~Unknown(c) /\ r.limit = None
  <2>1. Refuse("invalid_argument")
    BY <1>2, <1>5 DEF Sample
  <2> QED
    BY <1>1, <2>1, RefusalKeepsIInv
<1>6. CASE ~Unknown(c) /\ r.limit # None
  <2>1. PICK page \in Page(c, r) :
            Reply([Ok EXCEPT !.rows = page, !.count = Cardinality(Visible(c))])
    BY <1>2, <1>6 DEF Sample
  <2> DEFINE answer == [Ok EXCEPT !.rows = page, !.count = Cardinality(Visible(c))]
  <2>2. /\ Reply(answer) /\ answer.code = "ok"
        /\ answer.rows = page /\ answer.count = Cardinality(Visible(c))
    BY <2>1 DEF Ok, NoAnswer
  <2>3. page \subseteq Visible(c) /\
        Cardinality(page) = Min({r.limit, Max({Cardinality(Visible(c)) - r.offset, 0})})
    BY <2>1 DEF Page, kSubset
  <2>4. \A t \in Tables(r) : ~Hidden(t)
    BY <1>3, <1>6 DEF Unknown, Tables
  <2> HIDE DEF answer
  <2>5. Conforms(r, answer)
    BY <1>1, <1>2, <2>2, <2>3, <2>4 DEF Conforms
  <2> QED
    BY <1>1, <1>2, <2>2, <2>5, ConformingAnswerKeepsIInv
<1> QED
  BY <1>4, <1>5, <1>6

(* The routes that may name a second one.                                  *)
LEMMA SqlKeepsIInv ==
  ASSUME IInv, Sql
  PROVE  IInv'
<1>1. ControlsStand /\ q.pc = "route" /\ q.request.route = "sql" /\ RulesAreCurrent
  BY ReadersLeaveTheRules DEF Sql, At, IInv
<1>2. PICK r : r = q.request
  OBVIOUS
<1>3. CASE Refuse("invalid_argument")
  BY <1>1, <1>3, RefusalKeepsIInv
<1>4. CASE Refuse("unknown_dataset") /\ \E c \in Tables(r) : Hidden(c)
  BY <1>1, <1>2, <1>4, RefusalKeepsIInv, HiddenIsClosed
<1> DEFINE rows   == Kept(r, Visible(r.dataset), cells)
           joined == Attached(r, rows, cells)
           answer == [Ok EXCEPT !.rows = rows, !.joined = joined]
<1>5. CASE Reply(answer) /\ \A c \in Tables(r) : ~Hidden(c)
  <2>1. answer.code = "ok" /\ answer.rows = rows /\ answer.joined = joined
    BY DEF Ok, NoAnswer
  <2> HIDE DEF answer
  <2>2. Conforms(r, answer)
    BY <1>1, <1>2, <1>5, <2>1 DEF Conforms
  <2> QED
    BY <1>1, <1>2, <1>5, <2>1, <2>2, ConformingAnswerKeepsIInv
<1> QED
  BY <1>2, <1>3, <1>4, <1>5 DEF Sql

LEMMA QueryKeepsIInv ==
  ASSUME IInv, Query
  PROVE  IInv'
<1>1. ControlsStand /\ q.pc = "route" /\ q.request.route = "query" /\ RulesAreCurrent
  BY ReadersLeaveTheRules DEF Query, At, IInv
<1>2. PICK r : r = q.request
  OBVIOUS
<1> DEFINE Refused == Unknown(r.dataset) \/ JoinIsHidden(r) \/ ~(Tables(r) \subseteq Cubes)
           Names   == IF r.domain = None THEN {} ELSE Domain(r.domain)
           rows    == Kept(r, Visible(r.dataset), cells)
           joined  == Attached(r, rows, cells)
           answer  == [Ok EXCEPT !.rows = rows, !.joined = joined, !.names = Names]
<1>3. r.dataset \in Tables(r)
  BY <1>1, <1>2, RequestsNameTables DEF IInv, Tables
<1>4. CASE Refused
  <2>1. Refuse("unknown_dataset")
    BY <1>2, <1>4 DEF Query
  <2>2. ASSUME Tables(r) \subseteq Cubes PROVE \E c \in Tables(r) : Closed(c)
    <3>1. \E c \in Tables(r) : Hidden(c)
      BY <1>3, <1>4, <2>2 DEF Unknown, JoinIsHidden, Tables
    <3> QED
      BY <1>1, <3>1, HiddenIsClosed
  <2> QED
    BY <1>1, <1>2, <2>1, <2>2, RefusalKeepsIInv
<1>6. CASE Refuse("invalid_argument")
  BY <1>1, <1>6, RefusalKeepsIInv
<1>5. CASE ~Refused /\ Joinable(r)
  <2>1. Reply(answer)
    BY <1>2, <1>5 DEF Query
  <2>2. answer.code = "ok" /\ answer.rows = rows /\ answer.joined = joined /\ answer.names = Names
    BY DEF Ok, NoAnswer
  <2>3. \A c \in Tables(r) : ~Hidden(c)
    BY <1>5 DEF Unknown, JoinIsHidden, Tables
  <2>4. \A m \in Names : LeavesOf(r.domain, m) \cap DeniedLeaves(r.domain) = {}
    BY DEF Domain
  <2> HIDE DEF answer, Names
  <2>5. Conforms(r, answer)
    BY <1>1, <1>2, <2>2, <2>3, <2>4 DEF Conforms
  <2> QED
    BY <1>1, <1>2, <2>1, <2>2, <2>5, ConformingAnswerKeepsIInv
<1>7. ~Refused /\ ~Joinable(r) => Refuse("invalid_argument")
  BY <1>2 DEF Query
<1> QED
  BY <1>4, <1>5, <1>6, <1>7

LEMMA WriteCellsKeepsIInv ==
  ASSUME IInv, WriteCells
  PROVE  IInv'
<1>1. q.pc = "route" /\ q.request.route = "write" /\ RulesAreCurrent /\ auth' = auth
  BY DEF WriteCells, At, IInv
<1>2. PICK r : r = q.request
  OBVIOUS
<1> DEFINE c == r.dataset
<1>3. c \in Tables(r)
  BY <1>1, <1>2, RequestsNameTables DEF IInv, Tables
<1>4. CASE Turned(c, r) = {} /\ Put(c, r.cells, r.value) /\ Reply(Ok)
  <2>1. ~Vetoed(c, r) /\ c \in Cubes /\ c \notin ControlCubes
    BY <1>4 DEF Turned, Guarded
  <2>2. ControlsStand
    BY <1>1, <1>4, <2>1, DataWritesKeepTheRules DEF IInv
  <2>3. Writable(r)
    BY <1>1, <2>1, VetoedIsNotWritable
  <2>4. Conforms(r, Ok) /\ Ok.code = "ok"
    BY <1>1, <1>2, <2>3 DEF Conforms, Ok, NoAnswer
  <2> QED
    BY <1>1, <1>2, <1>4, <2>2, <2>4, ConformingAnswerKeepsIInv
<1>5. ASSUME NEW code \in Turned(c, r), Refuse(code), cells' = cells
      PROVE  IInv'
  <2>1. ControlsStand
    BY <1>1, <1>5 DEF ControlsStand
  <2>2. code # "ok"
    BY <1>5 DEF Turned, Refusals
  <2>3. ASSUME code \in {"forbidden", "unknown_dataset"}, Tables(r) \subseteq Cubes
        PROVE  ~Writable(r)
    <3>1. Vetoed(c, r) \/ c \in ControlCubes
      BY <1>3, <1>5, <2>3 DEF Turned, Refusals, Guarded
    <3> QED
      BY <1>1, <3>1, VetoedIsNotWritable
  <2> QED
    BY <1>1, <1>2, <1>5, <2>1, <2>2, <2>3, RefusalKeepsIInv
<1> QED
  BY <1>2, <1>4, <1>5 DEF WriteCells

-------------------------------------------------------------------------------
LEMMA StepKeepsIInv == IInv /\ [Next]_vars => IInv'
<1> SUFFICES ASSUME IInv, [Next]_vars PROVE IInv'
  OBVIOUS
<1>1. CASE UNCHANGED vars
  <2>1. cells' = cells /\ q' = q /\ auth' = auth
    BY <1>1 DEF vars
  <2>2. ControlsStand
    BY <2>1 DEF ControlsStand
  <2>3. \A c : InSight(c)' = InSight(c)
    BY <2>1, <2>2, RulesStand DEF InSight
  <2>9. members' = members
    BY <1>1 DEF vars
  <2>10. \A c, x : Facts(c, x)' = Facts(c, x)
    BY <2>9 DEF Facts, Everyone
  <2>4. \A r, a : Obeyed(r, a)' <=> Obeyed(r, a)
    BY <2>1, <2>2, <2>3, <2>10, RulesStand DEF Obeyed
  <2>5. AnswersObeyTheRules'
    BY <2>1, <2>4 DEF IInv, AnswersObeyTheRules
  <2>6. RefusalsHaveARule'
    BY <2>1, <2>2, RulesStand DEF IInv, RefusalsHaveARule
  <2>7. QShape' /\ (q.pc = "route" => RulesAreCurrent)'
    BY <2>1 DEF IInv, QShape, RulesAreCurrent
  <2>8. (q.pc \in {"rules", "route"} => ~Rejected(q.request))'
    BY <2>1 DEF IInv, Rejected
  <2> QED
    BY <2>1, <2>5, <2>6, <2>7, <2>8 DEF IInv
<1>2. CASE Next
  BY <1>2, WriteElsewhereKeepsIInv, AskKeepsIInv, ReadRulesKeepsIInv, ReadersKeepIInv, SqlKeepsIInv,
     DescribeKeepsIInv, SampleKeepsIInv, QueryKeepsIInv, WriteCellsKeepsIInv DEF Next
<1> QED
  BY <1>1, <1>2

LEMMA Inductive == Spec => []IInv
  BY InitIInv, StepKeepsIInv, PTL DEF Spec

(* Whatever the rules are and whatever is written meanwhile: serve.rs      *)
(* applies the same fold on every route, and the rows, counts and names it *)
(* answers with are those its roles may see.  What is not theirs to see    *)
(* shows in describe's numbers and in the attributes a join gives a row,   *)
(* and a member may be written that only its total's rule conceals.        *)
THEOREM Obedience == Spec => []AnswersObeyTheRules
<1>1. IInv => AnswersObeyTheRules
  BY DEF IInv
<1> QED
  BY <1>1, Inductive, PTL

(* access.rs:20, default accept: only a rule of a role that is held turns  *)
(* a request about existing cubes away.                                    *)
THEOREM DefaultAcceptance == Spec => []RefusalsHaveARule
<1>1. IInv => RefusalsHaveARule
  BY DEF IInv
<1> QED
  BY <1>1, Inductive, PTL

-------------------------------------------------------------------------------
(* Sessions and the security file.                                         *)
(* What a running command has in hand is what it will have answered, and   *)
(* what it renames is all of it.                                           *)
CommandInHand ==
    /\ ~lost /\ admin.pc # "idle" => admin.users = Answered
    /\ admin.pc = "rename" => temp = Whole(admin.users)

(* A dead token is not in the table at all: the clock cannot revive it.    *)
DeadTokensAreGone == dead \cap DOMAIN sessions = {}

SessionsIInv == TypeOK /\ CommandInHand /\ DeadTokensAreGone /\ NobodyIsLockedOut

(* Users are a function on some of the names.                              *)
LEMMA BankDef == \A f : f \in Bank <=> \E us \in SUBSET Users : f \in [us -> Record]
  BY DEF Bank

LEMMA NobodyInBank == Nobody \in Bank
<1>1. Nobody \in [{} -> Record]
  BY DEF Nobody
<1> QED
  BY <1>1, BankDef

(* --add-user keeps the list a list of users, with the one it names.       *)
LEMMA UpsertInBank ==
  ASSUME NEW us \in Bank, NEW c \in Commands, c.password # Blank
  PROVE  Upsert(us, c) \in Bank /\ c.user \in Users /\ DOMAIN Upsert(us, c) = DOMAIN us \cup {c.user}
<1>1. c.user \in Users /\ c.password \in Passwords /\ c.roles \in SUBSET Roles
  BY CommandsNameUsers
<1>2. PICK names \in SUBSET Users : us \in [names -> Record]
  BY BankDef
<1>3. [password |-> c.password, roles |-> c.roles] \in Record
  BY <1>1 DEF Record
<1>4. Upsert(us, c) \in [names \cup {c.user} -> Record]
  BY <1>2, <1>3 DEF Upsert
<1> QED
  BY <1>1, <1>2, <1>4, BankDef DEF Upsert

LEMMA SessionsInitIInv == SessionsInit => SessionsIInv
<1> SUFFICES ASSUME SessionsInit PROVE SessionsIInv
  OBVIOUS
<1>1. PICK us \in FirstFiles : file = (IF us = Nobody THEN NoFile ELSE Whole(us)) /\ known = us
  BY DEF SessionsInit
<1>2. us \in Bank
  BY FirstFilesAreUsers
<1>3. file \in File /\ temp \in File /\ known \in Bank
  BY <1>1, <1>2, NobodyInBank DEF SessionsInit, File, NoFile, Whole
<1>4. file.kind # "torn" /\ file.users = known
  BY <1>1 DEF NoFile, Whole
<1>5. admin = [pc |-> "idle", users |-> Nobody, whose |-> {}]
  BY DEF SessionsInit, Asleep
<1>6. TypeOK
  <2>1. admin \in [pc : {"idle", "create", "write", "rename"}, users : Bank, whose : SUBSET Users]
        /\ admin.whose \subseteq DOMAIN admin.users
    BY <1>5, NobodyInBank
  <2>2. server \in [up : BOOLEAN, users : Bank]
    BY NobodyInBank DEF SessionsInit, Down
  <2>3. DOMAIN sessions = {}
    BY DEF SessionsInit, Nobody
  <2>4. clock \in 0..MaxSeconds /\ issued \in 0..MaxLogins /\ dead \subseteq 1..issued
    BY BoundsAreNat DEF SessionsInit
  <2>5. settled \in BOOLEAN /\ lost \in BOOLEAN
    BY Zenon DEF SessionsInit
  <2> QED
    BY <1>3, <2>1, <2>2, <2>3, <2>4, <2>5 DEF TypeOK
<1> QED
  BY <1>4, <1>5, <1>6 DEF SessionsInit, SessionsIInv, CommandInHand, DeadTokensAreGone, NobodyIsLockedOut

-------------------------------------------------------------------------------
(* The steps of a command.                                                 *)

LEMMA StartCommandStep ==
  ASSUME SessionsIInv, NEW c \in Commands, StartCommand(c)
  PROVE  SessionsIInv'
<1> DEFINE us == Upsert(file.users, c)
<1>1. file.users \in Bank /\ file.kind # "torn" /\ c.password # Blank
  BY DEF SessionsIInv, TypeOK, File, StartCommand
<1>2. us \in Bank /\ c.user \in Users /\ DOMAIN us = DOMAIN file.users \cup {c.user}
  BY <1>1, UpsertInBank
<1>3. admin' = [pc |-> "create", users |-> us, whose |-> {c.user}]
  BY DEF StartCommand
<1>4. UNCHANGED <<file, temp, settled, known, lost, server, sessions, issued, dead, clock>>
  BY DEF StartCommand, answers, tokens
<1>5. TypeOK'
  BY <1>2, <1>3, <1>4 DEF SessionsIInv, TypeOK, File
<1>6. ~lost => us = Answered'
  <2> SUFFICES ASSUME ~lost PROVE us = Answered'
    OBVIOUS
  <2>1. file.users = known
    BY DEF SessionsIInv, NobodyIsLockedOut
  <2>2. Answered' = [u \in DOMAIN known \cup {c.user} |-> IF u \in {c.user} THEN us[u] ELSE known[u]]
    BY <1>3, <1>4 DEF Answered
  <2> QED
    BY <2>1, <2>2 DEF Upsert
<1> QED
  BY <1>3, <1>4, <1>5, <1>6 DEF SessionsIInv, CommandInHand, DeadTokensAreGone, NobodyIsLockedOut

(* Steps of a save before the rename touch the temporary file alone.       *)
LEMMA TempStep ==
  ASSUME SessionsIInv, CreateTemp \/ WriteTemp
  PROVE  SessionsIInv'
<1>1. UNCHANGED <<file, settled, known, lost, server, sessions, issued, dead, clock>>
  BY DEF CreateTemp, WriteTemp, answers, tokens
<1>2. /\ admin.pc \in {"create", "write"}
      /\ admin' = [admin EXCEPT !.pc = IF admin.pc = "create" THEN "write" ELSE "rename"]
      /\ temp' = IF admin.pc = "create" THEN Torn ELSE Whole(admin.users)
  BY DEF CreateTemp, WriteTemp
<1>3. /\ admin'.users = admin.users /\ admin'.whose = admin.whose
      /\ admin' \in [pc : {"idle", "create", "write", "rename"}, users : Bank, whose : SUBSET Users]
      /\ admin'.pc = "rename" => admin.pc = "write"
  BY <1>2 DEF SessionsIInv, TypeOK
<1>4. temp' \in File
  BY <1>2, NobodyInBank DEF SessionsIInv, TypeOK, File, Torn, Whole
<1>5. TypeOK'
  BY <1>1, <1>3, <1>4 DEF SessionsIInv, TypeOK
<1>6. Answered' = Answered
  BY <1>1, <1>3 DEF Answered
<1> QED
  BY <1>1, <1>2, <1>3, <1>5, <1>6 DEF SessionsIInv, CommandInHand, DeadTokensAreGone, NobodyIsLockedOut

(* A command that is over has nothing in hand.                             *)
LEMMA AsleepIsTyped ==
  /\ Asleep \in [pc : {"idle", "create", "write", "rename"}, users : Bank, whose : SUBSET Users]
  /\ Asleep.whose \subseteq DOMAIN Asleep.users
  /\ Asleep.pc = "idle"
  BY NobodyInBank DEF Asleep

LEMMA RenameStep ==
  ASSUME SessionsIInv, Rename
  PROVE  SessionsIInv'
<1>1. UNCHANGED <<lost, server, sessions, issued, dead, clock>>
  BY DEF Rename, tokens
<1>2. admin.pc = "rename" /\ file' = temp /\ temp' = NoFile /\ settled' = FALSE
      /\ known' = Answered /\ admin' = Asleep
  BY DEF Rename, EndCommand
<1>3. temp = Whole(admin.users) /\ (~lost => admin.users = Answered)
  BY <1>2 DEF SessionsIInv, CommandInHand
<1>4. known' \in Bank
  <2>1. PICK names \in SUBSET Users : known \in [names -> Record]
    BY BankDef DEF SessionsIInv, TypeOK
  <2>2. PICK mine \in SUBSET Users : admin.users \in [mine -> Record] /\ admin.whose \subseteq mine
    BY BankDef DEF SessionsIInv, TypeOK
  <2>3. Answered \in [names \cup admin.whose -> Record]
    BY <2>1, <2>2 DEF Answered
  <2> QED
    BY <1>2, <2>2, <2>3, BankDef
<1>5. TypeOK'
  <2>1. file' \in File /\ temp' \in File
    BY <1>2, NobodyInBank DEF SessionsIInv, TypeOK, File, NoFile
  <2>2. settled' \in BOOLEAN
    BY <1>2, Zenon
  <2> QED
    BY <1>1, <1>2, <1>4, <2>1, <2>2, AsleepIsTyped DEF SessionsIInv, TypeOK
<1>6. ~lost' => file'.kind # "torn" /\ file'.users = known'
  BY <1>1, <1>2, <1>3 DEF Whole
<1> QED
  BY <1>1, <1>2, <1>5, <1>6, AsleepIsTyped
  DEF SessionsIInv, CommandInHand, DeadTokensAreGone, NobodyIsLockedOut

LEMMA FailCommandStep ==
  ASSUME SessionsIInv, FailCommand
  PROVE  SessionsIInv'
<1>1. UNCHANGED <<file, settled, known, lost, server, sessions, issued, dead, clock>>
  BY DEF FailCommand, answers, tokens
<1>2. admin' = Asleep /\ temp' \in {temp, NoFile}
  BY DEF FailCommand, EndCommand
<1>3. TypeOK'
  <2>1. temp' \in File
    BY <1>2, NobodyInBank DEF SessionsIInv, TypeOK, File, NoFile
  <2> QED
    BY <1>1, <1>2, <2>1, AsleepIsTyped DEF SessionsIInv, TypeOK
<1> QED
  BY <1>1, <1>2, <1>3, AsleepIsTyped
  DEF SessionsIInv, CommandInHand, DeadTokensAreGone, NobodyIsLockedOut

-------------------------------------------------------------------------------
(* The steps of the server leave the files and the command alone.          *)
LEMMA SecurityStays ==
  ASSUME CommandInHand, NobodyIsLockedOut, UNCHANGED security
  PROVE  CommandInHand' /\ NobodyIsLockedOut'
  BY DEF CommandInHand, NobodyIsLockedOut, security, answers, Answered

LEMMA StartOrStopStep ==
  ASSUME SessionsIInv, StartServer \/ StopServer
  PROVE  SessionsIInv'
<1>1. UNCHANGED security /\ UNCHANGED <<issued, clock>> /\ sessions' = Nobody
  BY DEF StartServer, StopServer
<1>2. dead' \in {dead, dead \cup DOMAIN sessions}
  BY DEF StartServer, StopServer
<1>3. server' \in [up : BOOLEAN, users : Bank]
  <2>1. file.users \in Bank
    BY DEF SessionsIInv, TypeOK, File
  <2>2. CASE StartServer
    <3>1. server' = [up |-> TRUE, users |-> file.users]
      BY <2>2 DEF StartServer
    <3> QED
      BY <3>1, <2>1
  <2>3. CASE StopServer
    <3>1. server' = [up |-> FALSE, users |-> Nobody]
      BY <2>3 DEF StopServer, Down
    <3> QED
      BY <3>1, NobodyInBank
  <2> QED
    BY <2>2, <2>3
<1>4. DOMAIN sessions' = {}
  BY <1>1 DEF Nobody
<1>5. TypeOK'
  BY <1>1, <1>2, <1>3, <1>4 DEF SessionsIInv, TypeOK, security, answers
<1> QED
  BY <1>1, <1>4, <1>5, SecurityStays DEF SessionsIInv, DeadTokensAreGone

LEMMA LoginStep ==
  ASSUME SessionsIInv, NEW u \in Users, NEW password \in Passwords, Login(u, password)
  PROVE  SessionsIInv'
<1>1. UNCHANGED security /\ UNCHANGED <<server, dead, clock>> /\ issued' = issued + 1
  BY DEF Login
<1>2. issued' \in 0..MaxLogins /\ issued' \notin dead /\ dead \subseteq 1..issued'
      /\ 1..issued \subseteq 1..issued' /\ issued' \in 1..issued'
  BY <1>1, BoundsAreNat DEF Login, SessionsIInv, TypeOK
<1>3. server.users[u].roles \in SUBSET Roles
  <2>1. u \in DOMAIN server.users
    BY DEF Login, Authentic
  <2>2. PICK names \in SUBSET Users : server.users \in [names -> Record]
    BY BankDef DEF SessionsIInv, TypeOK
  <2>3. server.users[u] \in Record
    BY <2>1, <2>2
  <2> QED
    BY <2>3 DEF Record
<1>4. clock + Ttl \in Nat
  BY BoundsAreNat DEF SessionsIInv, TypeOK
<1> DEFINE fresh == [user |-> u, roles |-> server.users[u].roles, expires |-> clock + Ttl]
<1>5. sessions' = [t \in DOMAIN sessions \cup {issued'} |-> IF t = issued' THEN fresh ELSE sessions[t]]
  BY DEF Login
<1>6. DOMAIN sessions' = DOMAIN sessions \cup {issued'}
  BY <1>5
<1>7. \A t \in DOMAIN sessions' :
          sessions'[t] \in [user : Users, roles : SUBSET Roles, expires : Nat]
  <2> SUFFICES ASSUME NEW t \in DOMAIN sessions'
               PROVE  sessions'[t] \in [user : Users, roles : SUBSET Roles, expires : Nat]
    OBVIOUS
  <2>1. fresh \in [user : Users, roles : SUBSET Roles, expires : Nat]
    BY <1>3, <1>4
  <2>2. CASE t = issued'
    BY <2>1, <2>2, <1>5, <1>6
  <2>3. CASE t # issued'
    BY <2>3, <1>5, <1>6 DEF SessionsIInv, TypeOK
  <2> QED
    BY <2>2, <2>3
<1>8. TypeOK'
  BY <1>1, <1>2, <1>6, <1>7 DEF SessionsIInv, TypeOK, security, answers
<1> QED
  BY <1>1, <1>2, <1>6, <1>8, SecurityStays DEF SessionsIInv, DeadTokensAreGone

LEMMA RefuseStep ==
  ASSUME SessionsIInv, NEW t \in 1..issued, Validate(t) \/ Revoke(t)
  PROVE  SessionsIInv'
<1>1. UNCHANGED security /\ UNCHANGED <<server, issued, clock>> /\ dead' = dead \cup {t}
  BY DEF Validate, Revoke
<1>2. sessions' = [s \in DOMAIN sessions \ {t} |-> sessions[s]]
  BY DEF Validate, Revoke, Drop
<1>3. TypeOK'
  BY <1>1, <1>2 DEF SessionsIInv, TypeOK, security, answers
<1> QED
  BY <1>1, <1>2, <1>3, SecurityStays DEF SessionsIInv, DeadTokensAreGone

LEMMA PowerFailureStep ==
  ASSUME SessionsIInv, PowerFailure
  PROVE  SessionsIInv'
<1>1. UNCHANGED <<known, issued, clock>> /\ sessions' = Nobody /\ server' = Down
      /\ dead' = dead \cup DOMAIN sessions /\ admin' = Asleep /\ settled' = TRUE
      /\ lost' = (lost \/ ~settled)
  BY DEF PowerFailure, EndCommand
<1>2. file' \in {file, Torn} /\ temp' \in {temp, Torn} /\ (settled => file' = file)
  BY DEF PowerFailure
<1>3. DOMAIN sessions' = {}
  BY <1>1 DEF Nobody
<1>4. TypeOK'
  <2>1. file' \in File /\ temp' \in File
    BY <1>2, NobodyInBank DEF SessionsIInv, TypeOK, File, Torn
  <2>2. server' \in [up : BOOLEAN, users : Bank]
    BY <1>1, NobodyInBank DEF Down
  <2>3. settled' \in BOOLEAN /\ lost' \in BOOLEAN
    BY <1>1, Zenon
  <2> QED
    BY <1>1, <1>3, <2>1, <2>2, <2>3, AsleepIsTyped DEF SessionsIInv, TypeOK
<1>5. ~lost' => ~lost /\ settled
  BY <1>1 DEF SessionsIInv, TypeOK
<1> QED
  BY <1>1, <1>2, <1>3, <1>4, <1>5, AsleepIsTyped
  DEF SessionsIInv, CommandInHand, DeadTokensAreGone, NobodyIsLockedOut

LEMMA SettleOrClockStep ==
  ASSUME SessionsIInv, Settle \/ \E s \in 0..MaxSeconds : SetClock(s)
  PROVE  SessionsIInv'
<1>1. UNCHANGED <<file, temp, admin, known, lost, server, sessions, issued, dead>>
  BY DEF Settle, SetClock, security, answers, tokens
<1>2. settled' \in BOOLEAN /\ clock' \in 0..MaxSeconds
  <2>1. CASE Settle
    BY <2>1, Zenon DEF Settle, SessionsIInv, TypeOK
  <2>2. CASE \E s \in 0..MaxSeconds : SetClock(s)
    BY <2>2 DEF SetClock, security, SessionsIInv, TypeOK
  <2> QED
    BY <2>1, <2>2
<1>3. TypeOK'
  BY <1>1, <1>2 DEF SessionsIInv, TypeOK
<1> QED
  BY <1>1, <1>3 DEF SessionsIInv, CommandInHand, DeadTokensAreGone, NobodyIsLockedOut, Answered

LEMMA SessionsStep == SessionsIInv /\ [SessionsNext]_sessionsVars => SessionsIInv'
<1> SUFFICES ASSUME SessionsIInv, [SessionsNext]_sessionsVars PROVE SessionsIInv'
  OBVIOUS
<1>1. CASE UNCHANGED sessionsVars
  BY <1>1 DEF sessionsVars, security, answers, tokens, SessionsIInv, TypeOK, CommandInHand, Answered,
     DeadTokensAreGone, NobodyIsLockedOut
<1>2. CASE SessionsNext
  BY <1>2, StartCommandStep, TempStep, RenameStep, FailCommandStep, StartOrStopStep, LoginStep,
     RefuseStep, PowerFailureStep, SettleOrClockStep DEF SessionsNext
<1> QED
  BY <1>1, <1>2

LEMMA SessionsInductive == SessionsSpec => []SessionsIInv
  BY SessionsInitIInv, SessionsStep, PTL DEF SessionsSpec

-------------------------------------------------------------------------------
(* The variables keep their types, whatever the processes do.              *)
THEOREM TypeCorrect == SessionsSpec => []TypeOK
<1>1. SessionsIInv => TypeOK
  BY DEF SessionsIInv
<1> QED
  BY <1>1, SessionsInductive, PTL

(* SessionStore::validate and revoke: a token that was refused once, was   *)
(* revoked or is of an earlier run is never good again.                    *)
THEOREM Revocation == SessionsSpec => []DeadTokensStayDead
<1>1. SessionsIInv => DeadTokensStayDead
  BY DEF SessionsIInv, DeadTokensAreGone, DeadTokensStayDead, Live
<1> QED
  BY <1>1, SessionsInductive, PTL

(* store.rs, save: whatever step a command fails or dies in, the file a    *)
(* server starts from is whole and says what the last answer said.         *)
THEOREM Survival == SessionsSpec => []NobodyIsLockedOut
<1>1. SessionsIInv => NobodyIsLockedOut
  BY DEF SessionsIInv
<1> QED
  BY <1>1, SessionsInductive, PTL
===============================================================================
