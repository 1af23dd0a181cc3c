---------------------------- MODULE MQTTTopicFilter ----------------------------
(***************************************************************************)
(* Topic filters of the subscription manager: which filters are accepted   *)
(* (prvGetTopicFilterType) and which topics an accepted one with           *)
(* wild-cards matches (prvDoesTopicMatchTopicFilter).                      *)
(*                                                                         *)
(* The matching loop is a state machine with one action per branch of the  *)
(* loop body, so that its indices, its termination and its verdict can be  *)
(* compared with the definition of a match over levels.  As in C, i and j  *)
(* count from 0: the character at hand is topic[i + 1].                    *)
(*                                                                         *)
(* Source: lib/mqtt/aws_mqtt_lib.c.                                        *)
(***************************************************************************)
EXTENDS Integers, Sequences, FiniteSets

CONSTANTS
    TopicStrings,    \* topics of received messages, sequences of characters
    FilterStrings    \* topic filters, valid ones or not

WildCards == {"+", "#"}

\* A topic has at least one character and no wild-card.
ASSUME TopicStringsAssumption ==
    \A t \in TopicStrings : /\ t \in Seq(STRING) /\ t # << >>
                      /\ \A k \in 1 .. Len(t) : t[k] \notin WildCards
ASSUME FilterStringsAssumption == \A f \in FilterStrings : f \in Seq(STRING) /\ f # << >>

VARIABLES
    topic,     \* pucTopic
    filter,    \* pucTopicFilter
    matchPc,   \* "classify" | "loop" | "decide" | "done"
    kind,      \* the type of the filter, "None" before it is known
    i, j,      \* usTopicIndex, usTopicFilterIndex
    matches    \* xTopicMatchesTopicFilter

matchVars == <<topic, filter, matchPc, kind, i, j, matches>>

MatchInit ==
    /\ topic \in TopicStrings
    /\ filter \in FilterStrings
    /\ matchPc = "classify"
    /\ kind = "None"
    /\ i = 0 /\ j = 0
    /\ matches = FALSE

-----------------------------------------------------------------------------
(* prvGetTopicFilterType.                                                   *)

\* The character after which, or the end at which, a level begins or ends.
LevelStarts(f, x) == x = 1 \/ f[x - 1] = "/"
LevelEnds(f, x)   == x = Len(f) \/ f[x + 1] = "/"

\* The wild-card at x makes the filter invalid.
IsMisplaced(f, x) ==
    \/ f[x] = "+" /\ ~(LevelStarts(f, x) /\ LevelEnds(f, x))
    \/ f[x] = "#" /\ ~(LevelStarts(f, x) /\ x = Len(f))

FilterType(f) ==
    CASE \E x \in 1 .. Len(f) : IsMisplaced(f, x)    -> "Invalid"
      [] \A x \in 1 .. Len(f) : f[x] \notin WildCards -> "Simple"
      [] OTHER                                       -> "WildCard"

\* Only filters with wild-cards go through the loop: simple ones are compared
\* as strings, invalid ones are never stored.
Classify ==
    /\ matchPc = "classify"
    /\ kind' = FilterType(filter)
    /\ matchPc' = IF kind' = "WildCard" THEN "loop" ELSE "done"
    /\ UNCHANGED <<topic, filter, i, j, matches>>

-----------------------------------------------------------------------------
(* prvDoesTopicMatchTopicFilter.                                            *)

InLoop == matchPc = "loop" /\ i < Len(topic) /\ j < Len(filter)
Equal  == topic[i + 1] = filter[j + 1]

BugParentLevel == FALSE   \* mutant: the corner case is left out

\* The topic ends where "/#" begins.
ParentLevel ==
    /\ i = Len(topic) - 1 /\ j = Len(filter) - 3
    /\ filter[j + 2] = "/" /\ filter[j + 3] = "#"

\* The topic ends where a last "+" begins.
EmptyLastLevel ==
    /\ i = Len(topic) - 1 /\ j = Len(filter) - 2
    /\ filter[j + 2] = "+"

Match ==
    /\ InLoop /\ Equal
    /\ ParentLevel \/ EmptyLastLevel
    /\ matches' = TRUE
    /\ matchPc' = "decide"
    /\ UNCHANGED <<topic, filter, kind, i, j>>

Advance ==
    /\ InLoop /\ Equal
    /\ ~ParentLevel /\ ~EmptyLastLevel
    /\ i' = i + 1
    /\ j' = j + 1
    /\ UNCHANGED <<topic, filter, matchPc, kind, matches>>

LevelEndFrom(x) ==
    CHOOSE e \in x .. Len(topic) :
        /\ e = Len(topic) \/ topic[e + 1] = "/"
        /\ \A k \in x .. (e - 1) : topic[k + 1] # "/"

\* The index at which the level of the topic at hand ends.
LevelEnd == LevelEndFrom(i)

\* usTopicFilterIndex behind the '+'.
NextFilterIndex == j + 1

SkipLevel ==
    /\ InLoop /\ ~Equal /\ filter[j + 1] = "+"
    /\ i' = LevelEnd
    /\ j' = NextFilterIndex
    /\ UNCHANGED <<topic, filter, matchPc, kind, matches>>

MatchRest ==
    /\ InLoop /\ ~Equal /\ filter[j + 1] = "#"
    /\ matches' = TRUE
    /\ matchPc' = "decide"
    /\ UNCHANGED <<topic, filter, kind, i, j>>

Mismatch ==
    /\ InLoop /\ ~Equal /\ filter[j + 1] \notin WildCards
    /\ matchPc' = "decide"
    /\ UNCHANGED <<topic, filter, kind, i, j, matches>>

LeaveLoop ==
    /\ matchPc = "loop" /\ ~InLoop
    /\ matchPc' = "decide"
    /\ UNCHANGED <<topic, filter, kind, i, j, matches>>

\* The topic ended together with the filter.
BothConsumed == i > 0 /\ i >= Len(topic) /\ j > 0 /\ j >= Len(filter)

Decide ==
    /\ matchPc = "decide"
    /\ matches' = (matches \/ BothConsumed)
    /\ matchPc' = "done"
    /\ UNCHANGED <<topic, filter, kind, i, j>>

MatchNext == \/ Classify \/ Match \/ Advance \/ SkipLevel \/ MatchRest
        \/ Mismatch \/ LeaveLoop \/ Decide

MatchSpec == MatchInit /\ [][MatchNext]_matchVars

-----------------------------------------------------------------------------
(* The definition of a match, level by level (MQTT 3.1.1, section 4.7).     *)

SlashCount(s) == Cardinality({k \in 1 .. Len(s) : s[k] = "/"})

\* The position of the n-th '/'; there is one before and one behind the string.
Slash(s, n) ==
    IF n = 0 THEN 0
    ELSE IF n > SlashCount(s) THEN Len(s) + 1
    ELSE CHOOSE k \in 1 .. Len(s) :
             s[k] = "/" /\ Cardinality({m \in 1 .. k : s[m] = "/"}) = n

Levels(s) == [n \in 1 .. (SlashCount(s) + 1) |->
                 SubSeq(s, Slash(s, n - 1) + 1, Slash(s, n) - 1)]

IsWild(level)   == \E k \in 1 .. Len(level) : level[k] \in WildCards
IsValid(levels) ==
    \A n \in 1 .. Len(levels) :
        IsWild(levels[n]) => \/ levels[n] = <<"+">>
                             \/ levels[n] = <<"#">> /\ n = Len(levels)

LevelsMatch(t, f, n) == \A k \in 1 .. n : f[k] = t[k] \/ f[k] = <<"+">>

Matching(t, f) ==
    LET last == Len(f) IN
    IF f[last] = <<"#">>
    THEN Len(t) >= last - 1 /\ LevelsMatch(t, f, last - 1)
    ELSE Len(t) = last /\ LevelsMatch(t, f, last)

-----------------------------------------------------------------------------
(* Properties.                                                              *)

MatchTypeOK ==
    /\ topic \in TopicStrings /\ filter \in FilterStrings
    /\ matchPc \in {"classify", "loop", "decide", "done"}
    /\ kind \in {"None", "Invalid", "Simple", "WildCard"}
    /\ i \in 0 .. Len(topic) /\ j \in 0 .. Len(filter)
    /\ matches \in BOOLEAN

\* A filter is refused exactly if one of its levels mixes a wild-card with
\* other characters or '#' is not in the last level.
KindIsRight ==
    matchPc # "classify" =>
        /\ kind = "Invalid" <=> ~IsValid(Levels(filter))
        /\ kind = "Simple"  <=> \A n \in 1 .. Len(Levels(filter)) :
                                    ~IsWild(Levels(filter)[n])

\* A callback is never invoked for a topic its filter does not match.
MatchIsSound ==
    matchPc = "done" /\ matches => Matching(Levels(topic), Levels(filter))

\* '#' stands for the parent level of the topic, which has no level of its own.
HashIsParent(t, f) == f[Len(f)] = <<"#">> /\ Len(t) = Len(f) - 1

\* '#' stands for a single, empty level.
HashIsEmptyLevel(t, f) ==
    f[Len(f)] = <<"#">> /\ Len(t) = Len(f) /\ t[Len(t)] = << >>

\* A topic that the filter matches is found, with two exceptions: "+/#" is not
\* found to match the parent level "a", nor "a/#" to match "a/".
MatchIsComplete ==
    LET t == Levels(topic) f == Levels(filter) IN
    matchPc = "done" /\ kind = "WildCard" /\ Matching(t, f) =>
        \/ matches
        \/ HashIsParent(t, f) /\ f[Len(f) - 1] = <<"+">>
        \/ HashIsEmptyLevel(t, f)

\* The two algorithms together decide what a filter means: which ones are refused, and
\* which topics the others match (prvGetTopicFilterType, prvDoesTopicMatchTopicFilter).
FiltersMeanWhatTheySay == KindIsRight /\ MatchIsSound /\ MatchIsComplete
=============================================================================
