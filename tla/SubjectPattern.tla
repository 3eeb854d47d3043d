--------------------------- MODULE SubjectPattern ---------------------------
(***************************************************************************)
(* Whether a subject filter may be handed to the server: the check of      *)
(* nats_subject against the subjects of a stream, which nats_scan.cpp and  *)
(* nats_ingest.cpp hold word for word.  A subject is the sequence of its   *)
(* tokens; "*" stands for one token, ">" at the end for one or more.       *)
(***************************************************************************)
EXTENDS Naturals, Sequences

CONSTANT Token   \* the tokens of subjects and patterns

ASSUME TokenAssumption == {"*", ">"} \subseteq Token

\* The shorter pattern is a strict prefix: "a." is a prefix of "a.b", not of "a".
Extends(subject, prefix) ==
  /\ Len(subject) > Len(prefix)
  /\ \A i \in 1..Len(prefix) : subject[i] = prefix[i]

Stem(pattern) == SubSeq(pattern, 1, Len(pattern) - 1)

EndsIn(pattern, token) == Len(pattern) > 1 /\ pattern[Len(pattern)] = token

\* SubjectIsUnderStreamPattern.
IsUnder(subject, pattern) ==
  \/ pattern = <<">">>
  \/ pattern = subject
  \/ EndsIn(pattern, ">") /\ Extends(subject, Stem(pattern))
  \/ /\ EndsIn(pattern, "*")
     /\ Extends(subject, Stem(pattern))
     /\ Len(subject) = Len(pattern)

HasWildcard(subject) == \E i \in 1..Len(subject) : subject[i] \in {"*", ">"}

\* A filter without a dot or a wildcard is taken for a substring to search for.
IsSubject(filter) == Len(filter) > 1 \/ HasWildcard(filter)

\* CanUseServerSubjectFilter.
CanUseServerFilter(filter, patterns) ==
  IsSubject(filter) /\ \E p \in patterns : IsUnder(filter, p)

\* NATS itself: the subjects a filter selects.
Matches(subject, filter) ==
  LET n == Len(filter)
  IN IF filter[n] = ">"
     THEN /\ Len(subject) >= n
          /\ \A i \in 1..n - 1 : filter[i] \in {"*", subject[i]}
     ELSE /\ Len(subject) = n
          /\ \A i \in 1..n : filter[i] \in {"*", subject[i]}
=============================================================================
