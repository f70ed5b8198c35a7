------------------------------ MODULE LqlParser ------------------------------
(***************************************************************************)
(* The parser of the query language (liminal-core/src/lql.rs), one token   *)
(* a step.  The tokens of the query become known as the parser looks at    *)
(* them, and the query may end wherever it looks; the parser moves its     *)
(* index by hand, and within a WHERE clause a second one, relative to it.  *)
(*                                                                         *)
(* A token is a keyword or a class: num and zero (whole numbers), frac (a  *)
(* number that is not whole), strength and adreno (legal conditions of two *)
(* kinds; a salience condition is like strength), prob (p>=..), none,      *)
(* strs1, nums1, nums2 (lists in JSON), map (an object) and its pieces     *)
(* open, part and close (an object with spaces), word (the rest).  The     *)
(* value of a clause is the place of its token in the query.               *)
(***************************************************************************)
EXTENDS Integers, Sequences, FiniteSets

CONSTANTS
    MaxTokens,      \* bound: tokens after a command
    MaxViewTokens   \* bound: after SELECT and SUBSCRIBE

VARIABLE query      \* the query so far and where the parser is in it

AnyNumber == {"num", "zero", "frac"}

\* what parse_condition_token, the two list parsers and trim_quotes accept
Conditions == {"strength", "adreno"}
StringList(t) == IF t = "none" THEN 0 ELSE IF t = "strs1" THEN 1 ELSE -1
FloatList(t) == IF t = "none" THEN 0 ELSE IF t = "nums1" THEN 1 ELSE IF t = "nums2" THEN 2 ELSE -1
VariantCount(t) == IF t = "none" THEN 0 ELSE 1

-----------------------------------------------------------------------------
(* One token more.  q.mode is what the parser expects, q.got the values,   *)
(* q.used the tokens it has moved past.                                     *)

\* the place before the next token: parse_where_conditions counts from its slice on
Place(q) == q.idx + q.consumed

Rejects(q) == [q EXCEPT !.mode = "rejected"]
Accepts(q) == [q EXCEPT !.mode = "accepted"]
Verdict(q, ok) == IF ok THEN Accepts(q) ELSE Rejects(q)

\* the index moves past the token
Moves(q, mode) == [q EXCEPT !.mode = mode, !.idx = @ + 1, !.used = Append(@, Place(q) + 1)]
Gets(q, name, mode) == [Moves(q, mode) EXCEPT !.got[name] = Place(q) + 1]

\* a keyword, each of which names the mode of its value
TakesKey(q, t, keys) == IF t \in keys THEN Moves(q, t) ELSE Rejects(q)

\* a value that must satisfy ok, for the clause the mode is named after
TakesValue(q, ok, mode) == IF ok THEN Gets(q, q.mode, mode) ELSE Rejects(q)

\* parse_select's loop
SelectStep(q, t) ==
    CASE q.mode = "pattern" -> Moves(q, "clause")
      [] q.mode = "WINDOW" -> TakesValue(q, t = "num", "clause")
      [] q.mode = "clause" -> TakesKey(q, t, {"WHERE", "WINDOW"})

\* parse_subscribe's loop
SubscribeStep(q, t) ==
    CASE q.mode = "pattern" -> Moves(q, "clause")
      [] q.mode \in {"WINDOW", "EVERY"} -> TakesValue(q, t = "num", "clause")
      [] q.mode = "clause" -> TakesKey(q, t, {"WHERE", "WINDOW", "EVERY"})

\* Mutant: the caller moves past the token that ended the clause
WhereEndsPast(q) == [q EXCEPT !.mode = "clause", !.idx = @ + q.consumed + 1, !.consumed = 0]

\* the clause ends before a token that is not its own: i += consumed
WhereEnds(q) == [q EXCEPT !.mode = "clause", !.idx = @ + q.consumed, !.consumed = 0]

\* parse_where_conditions' loop, its own index being q.consumed
WhereStep(q, t) ==
    LET past(mode) == [q EXCEPT !.mode = mode, !.consumed = @ + 1, !.used = Append(@, Place(q) + 1)]
    IN  IF t \in {"WINDOW", "EVERY"}
        THEN IF q.mode = "AND" THEN WhereEnds(q) ELSE Rejects(q)
        ELSE IF q.mode = "AND" THEN IF t = "AND" THEN past("WHERE") ELSE Rejects(q)
        ELSE IF t \in Conditions THEN [past("AND") EXCEPT !.got[t] = Place(q) + 1] ELSE Rejects(q)

\* the end of the tokens, in the loops of both and in parse_where_conditions
ViewEnd(q) == q.mode \in {"clause", "AND"}

IntendStep(q, t) ==
    CASE q.mode = "key" -> TakesKey(q, t, {"TOKENS", "WEIGHTS", "HORIZON", "BUDGET"})
      [] q.mode = "TOKENS" -> TakesValue(q, StringList(t) >= 0, "key")
      [] q.mode = "WEIGHTS" -> TakesValue(q, FloatList(t) >= 0, "key")
      [] q.mode = "HORIZON" -> TakesValue(q, t \in {"num", "zero"}, "key")
      [] q.mode = "BUDGET" -> TakesValue(q, t \in AnyNumber, "key")

\* the weights are as many as the tokens, if there are any
IntendEnd(q) ==
    /\ q.mode = "key" /\ q.got["TOKENS"] > 0
    /\ q.got["WEIGHTS"] > 0 =>
         FloatList(q.tokens[q.got["WEIGHTS"]]) = StringList(q.tokens[q.got["TOKENS"]])

\* after TOP and its number nothing is read; SELECT skips what it does not know
VariantsStep(q, t) ==
    CASE q.mode = "start" -> IF t = "SELECT" THEN Moves(q, "key") ELSE TakesKey(q, t, {"TOP"})
      [] q.mode = "TOP" -> IF t = "num" THEN Accepts(Gets(q, "TOP", "key")) ELSE Rejects(q)
      [] q.mode = "WHERE" -> TakesValue(q, t = "prob", "key")
      [] q.mode = "LIMIT" -> TakesValue(q, t = "num", "key")
      [] q.mode = "key" -> Moves(q, IF t \in {"WHERE", "LIMIT"} THEN t ELSE "key")

VariantsEnd(q) == q.mode \in {"start", "key"}

SlideStep(q, t) ==
    CASE q.mode = "start" -> IF t = "SET" THEN Moves(q, "id") ELSE Rejects(q)
      [] q.mode = "id" -> Gets(q, "id", "key")
      [] q.mode = "key" -> TakesKey(q, t, {"VARIANTS", "GOALS", "ETHICS"})
      [] q.mode = "GOALS" -> TakesValue(q, t = "map", "key")
      [] q.mode \in {"VARIANTS", "ETHICS"} -> TakesValue(q, TRUE, "key")

\* an id and a list that is not empty
SlideEnd(q) ==
    /\ q.mode = "key" /\ Len(q.tokens) >= 4 /\ q.got["VARIANTS"] > 0
    /\ VariantCount(q.tokens[q.got["VARIANTS"]]) > 0

\* parse_introspect; MODEL stands for the four targets that take TOP
IntrospectStep(q, t) ==
    IF q.mode = "start" THEN IF t = "MODEL" THEN Moves(q, "top") ELSE TakesKey(q, t, {"EPOCH"})
    ELSE IF q.mode = "EPOCH" THEN TakesValue(q, t \in {"num", "zero"}, "done") ELSE Rejects(q)

\* parse_top_clause
TopStep(q, t) ==
    IF q.mode = "top" THEN TakesKey(q, t, {"TOP"}) ELSE TakesValue(q, t = "num", "done")

IntrospectEnd(q) == q.mode \in {"top", "done"}

\* all that follows TUNE is joined
ReflexStep(q, t) ==
    CASE q.mode = "start" -> IF t = "ON" THEN Accepts(Moves(q, "done")) ELSE TakesKey(q, t, {"TUNE"})
      [] q.mode = "TUNE" -> IF q.got["TUNE"] = 0 THEN Gets(q, "TUNE", "TUNE") ELSE Moves(q, "TUNE")

\* and must be the configuration, with or without spaces
ReflexEnd(q) ==
    /\ q.mode = "TUNE" /\ q.got["TUNE"] > 0
    /\ LET joined == SubSeq(q.tokens, q.got["TUNE"], Len(q.tokens))
       IN  \/ joined = <<"map">>
           \/ /\ Len(joined) > 1 /\ joined[1] = "open" /\ joined[Len(joined)] = "close"
              /\ \A i \in 2 .. Len(joined) - 1 : joined[i] = "part"

UnsubscribeStep(q, t) ==
    IF q.mode = "start" /\ t \in {"num", "zero"} THEN Gets(q, "id", "done") ELSE Rejects(q)

UnsubscribeEnd(q) == q.mode = "done"

CommitStep(q, t) == Accepts(Gets(q, "id", "done"))

\* from->to first; the reason is all that follows the first REASON
PivotStep(q, t) ==
    CASE q.mode = "start" -> IF t = "arrow" THEN Gets(q, "id", "rest") ELSE Rejects(q)
      [] q.mode = "rest" -> Moves(q, IF t = "REASON" THEN t ELSE "rest")
      [] q.mode = "REASON" -> Accepts(Gets(q, "REASON", "done"))

PivotEnd(q) == q.mode \in {"rest", "REASON"}

\* RATE, or DRAIN, counts only as the second token, with one after it
DefuseStep(q, t) ==
    CASE q.mode = "start" -> Gets(q, "id", "key")
      [] q.mode = "key" -> IF t = "RATE" THEN Moves(q, t) ELSE Accepts(Moves(q, "done"))
      [] q.mode = "RATE" -> Verdict(Gets(q, "RATE", "done"), t \in AnyNumber)

DefuseEnd(q) == q.mode \in {"key", "RATE"}

Commands == {"SELECT", "SUBSCRIBE", "UNSUBSCRIBE", "INTROSPECT", "INTEND", "VARIANTS", "SLIDE",
             "COMMIT", "PIVOT", "DEFUSE", "REFLEX"}
Names == {"WINDOW", "EVERY", "strength", "adreno", "TOKENS", "WEIGHTS", "HORIZON", "BUDGET",
          "TOP", "WHERE", "LIMIT", "id", "VARIANTS", "GOALS", "ETHICS", "EPOCH", "TUNE", "REASON",
          "RATE"}

FirstMode(cmd) ==
    CASE cmd \in {"SELECT", "SUBSCRIBE"} -> "pattern" [] cmd = "INTEND" -> "key" [] OTHER -> "start"

\* parse_lql: the command picks the parser
Step(q, t) ==
    CASE q.cmd = "SELECT" -> IF q.mode \in {"WHERE", "AND"} THEN WhereStep(q, t) ELSE SelectStep(q, t)
      [] q.cmd = "SUBSCRIBE" -> IF q.mode \in {"WHERE", "AND"} THEN WhereStep(q, t) ELSE SubscribeStep(q, t)
      [] q.cmd = "UNSUBSCRIBE" -> UnsubscribeStep(q, t)
      [] q.cmd = "INTROSPECT" -> IF q.mode \in {"top", "TOP"} THEN TopStep(q, t) ELSE IntrospectStep(q, t)
      [] q.cmd = "INTEND" -> IntendStep(q, t)
      [] q.cmd = "VARIANTS" -> VariantsStep(q, t)
      [] q.cmd = "SLIDE" -> SlideStep(q, t)
      [] q.cmd = "COMMIT" -> CommitStep(q, t)
      [] q.cmd = "PIVOT" -> PivotStep(q, t)
      [] q.cmd = "DEFUSE" -> DefuseStep(q, t)
      [] q.cmd = "REFLEX" -> ReflexStep(q, t)

\* the checks behind the loops
AtEnd(q) ==
    CASE q.cmd \in {"SELECT", "SUBSCRIBE"} -> ViewEnd(q)
      [] q.cmd = "UNSUBSCRIBE" -> UnsubscribeEnd(q)
      [] q.cmd = "INTROSPECT" -> IntrospectEnd(q)
      [] q.cmd = "INTEND" -> IntendEnd(q)
      [] q.cmd = "VARIANTS" -> VariantsEnd(q)
      [] q.cmd = "SLIDE" -> SlideEnd(q)
      [] q.cmd = "PIVOT" -> PivotEnd(q)
      [] q.cmd = "DEFUSE" -> DefuseEnd(q)
      [] q.cmd = "REFLEX" -> ReflexEnd(q)
      [] q.cmd = "COMMIT" -> FALSE

LqlInit ==
    \E cmd \in Commands :
       query = [cmd |-> cmd, mode |-> FirstMode(cmd), tokens |-> <<>>, idx |-> 0, consumed |-> 0,
                used |-> <<>>, got |-> [x \in Names |-> 0]]

Parsing == query.mode \notin {"accepted", "rejected"}
Most == IF query.cmd \in {"SELECT", "SUBSCRIBE"} THEN MaxViewTokens ELSE MaxTokens

\* the parser looks at a place: the query has a token there
Supply(t) ==
    /\ Parsing /\ Place(query) >= Len(query.tokens) /\ Len(query.tokens) < Most
    /\ query' = [query EXCEPT !.tokens = Append(@, t)]

ReadToken ==
    /\ Parsing /\ Place(query) < Len(query.tokens)
    /\ query' = Step(query, query.tokens[Place(query) + 1])

\* or it has ended before
ReadEnd ==
    /\ Parsing /\ Place(query) >= Len(query.tokens)
    /\ query' = Verdict(query, AtEnd(query))

\* the tokens a command tells apart, and one it does not know
Alphabet(cmd) ==
    {"word", "num", "zero"} \cup
    CASE cmd \in {"SELECT", "SUBSCRIBE"} -> {"WHERE", "WINDOW", "EVERY", "AND", "strength", "adreno"}
      [] cmd = "INTEND" -> {"TOKENS", "WEIGHTS", "HORIZON", "BUDGET",
                            "none", "strs1", "nums1", "nums2", "frac"}
      [] cmd = "VARIANTS" -> {"TOP", "SELECT", "WHERE", "LIMIT", "prob"}
      [] cmd = "SLIDE" -> {"SET", "VARIANTS", "GOALS", "ETHICS", "none", "map"}
      [] cmd = "INTROSPECT" -> {"MODEL", "TOP", "EPOCH"}
      [] cmd = "REFLEX" -> {"ON", "TUNE", "map", "open", "part", "close"}
      [] cmd = "PIVOT" -> {"arrow", "REASON"}
      [] cmd = "DEFUSE" -> {"RATE", "frac"}
      [] OTHER -> {}

LqlNext == ReadToken \/ ReadEnd \/ \E t \in Alphabet(query.cmd) : Supply(t)

-----------------------------------------------------------------------------
(* The grammar of docs/PROTOCOL.md: clauses once, in one order *)

IsWhere(c) ==
    /\ Len(c) >= 2 /\ Len(c) % 2 = 0 /\ c[1] = "WHERE"
    /\ \A i \in 2 .. Len(c) : IF i % 2 = 0 THEN c[i] \in Conditions ELSE c[i] = "AND"

Windows == {<<>>, <<"WINDOW", "num">>}
Everies(cmd) == IF cmd = "SUBSCRIBE" THEN {<<>>, <<"EVERY", "num">>} ELSE {<<>>}

\* the grammar joins conditions with AND for SELECT only
Documented(cmd, s) ==
    \/ /\ cmd \in {"SELECT", "SUBSCRIBE"}
       /\ \E n \in 1 .. Len(s) :
            /\ n = 1 \/ (IsWhere(SubSeq(s, 2, n)) /\ (cmd = "SUBSCRIBE" => n = 3))
            /\ \E window \in Windows, every \in Everies(cmd) : SubSeq(s, n + 1, Len(s)) = window \o every
    \/ cmd = "UNSUBSCRIBE" /\ s \in {<<"num">>, <<"zero">>}

\* where a documented query gives the value of a name last: behind the pattern,
\* the condition itself, or the token after its keyword
DocumentedPlace(name, s) ==
    LET at == {i \in 2 .. Len(s) : IF name \in Conditions THEN s[i] = name ELSE i > 2 /\ s[i - 1] = name}
    IN  IF at = {} THEN 0 ELSE CHOOSE i \in at : \A j \in at : j <= i

-----------------------------------------------------------------------------
(* Properties *)

\* A query of the documented forms is accepted with the values it gives, and
\* whatever is accepted was read from the first token to where the parser
\* stops, no token skipped or read twice by the indices that are moved by hand.
\* The parser accepts more than is documented: AND in SUBSCRIBE, and clauses in
\* any order and again.
ParsedAsDocumented ==
    ~Parsing =>
      /\ Documented(query.cmd, query.tokens) =>
           /\ query.mode = "accepted"
           /\ \A name \in {"WINDOW", "EVERY"} \cup Conditions :
                query.got[name] = DocumentedPlace(name, query.tokens)
      /\ query.mode = "accepted" => query.used = [i \in DOMAIN query.tokens |-> i]
=============================================================================
