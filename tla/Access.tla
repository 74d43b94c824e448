-------------------------------- MODULE Access --------------------------------
(***************************************************************************)
(* What the control cubes allow a session: the cells of #TableSecurity and *)
(* #DimensionSecurity, folded over the roles a session holds into the      *)
(* levels the routes ask for.                                              *)
(*                                                                         *)
(* A control cube is a function from coordinates, <<role, cube>> or        *)
(* <<role, dimension, member>>, to the text of a level.  Names are         *)
(* compared ignoring case, so a name here is a lower-case name.            *)
(***************************************************************************)
EXTENDS Integers, Sequences, FiniteSets

CONSTANTS NoneText, ReadText, WriteText,    \* the texts of the levels
          AllMembers,     \* "#ALL", the member that stands for a dimension
          DimensionsOf    \* cube -> its dimensions, in order

ASSUME LevelTextsDiffer == NoneText # ReadText /\ NoneText # WriteText /\ ReadText # WriteText

(* Level, ordered so that the least is the most restrictive.               *)
Forbidden == 0
Read      == 1
Write     == 2
Levels    == Forbidden..Write

(* Mutant: a text that is no level restricts nothing.                      *)
Parse_FailsOpen(text) ==
    CASE text = NoneText -> Forbidden
      [] text = ReadText -> Read
      [] OTHER           -> Write

(* Level::parse, and what becomes of a text that is no level.              *)
Parse(text) ==
    CASE text = ReadText  -> Read
      [] text = WriteText -> Write
      [] OTHER            -> Forbidden

(* Mutant: the most permissive rule wins.                                  *)
Lowest_Widest(levels) == CHOOSE l \in levels : \A m \in levels : m <= l

Lowest(levels) == CHOOSE l \in levels : \A m \in levels : l <= m

(* Mutant: the rows of every role bind every session.                      *)
Binding_AnyRole(control, held) == DOMAIN control

(* The rows that bind a session: those of the roles it holds.              *)
Binding(control, held) == {k \in DOMAIN control : k[1] \in held}

(* The most restrictive explicit rule.                                     *)
Strictest(control, rows) == Lowest({Parse(control[k]) : k \in rows})

-------------------------------------------------------------------------------
(* TableAccess: cube -> level, for the cubes that have a rule.             *)
TableRules(control, held) ==
    LET rows == Binding(control, held)
    IN  [c \in {k[2] : k \in rows} |-> Strictest(control, {k \in rows : k[2] = c})]

LevelFor(rules, c) == IF c \in DOMAIN rules THEN rules[c] ELSE Write

CanRead(rules, c) == LevelFor(rules, c) >= Read

-------------------------------------------------------------------------------
(* DimensionAccess: <<dimension, member>> -> level, the rows for a whole   *)
(* dimension (whole) kept apart from those for a member (members).         *)
DimensionRules(control, held) ==
    LET rows == Binding(control, held)
        of(k) == <<k[2], k[3]>>
        all  == {k \in rows : k[3] = AllMembers}
    IN  [whole   |-> [d \in {k[2] : k \in all} |->
                         Strictest(control, {k \in all : k[2] = d})],
         members |-> [m \in {of(k) : k \in rows \ all} |->
                         Strictest(control, {k \in rows \ all : of(k) = m})]]

WholeLevel(rules, d) == IF d \in DOMAIN rules.whole THEN rules.whole[d] ELSE Write

WholeDimensions(rules) == {d \in DOMAIN rules.whole : rules.whole[d] = Forbidden}

(* A cube cannot be read without one of its axes.                          *)
HidesCube(rules, c) ==
    /\ c \in DOMAIN DimensionsOf
    /\ \E a \in DOMAIN DimensionsOf[c] : DimensionsOf[c][a] \in WholeDimensions(rules)

DeniedMembers(rules, d) ==
    {m[2] : m \in {n \in DOMAIN rules.members : n[1] = d /\ rules.members[n] = Forbidden}}

(* Mutant: the rule for the whole dimension is forgotten.                  *)
ReadLevelFor_MemberOnly(rules, d, m) ==
    IF <<d, m>> \in DOMAIN rules.members THEN rules.members[<<d, m>>] ELSE Write

(* The most specific rule; write_level_for is the same.                    *)
ReadLevelFor(rules, d, m) ==
    IF <<d, m>> \in DOMAIN rules.members THEN rules.members[<<d, m>>] ELSE WholeLevel(rules, d)

CanCreateMember(rules, d) == WholeLevel(rules, d) >= Write
===============================================================================
