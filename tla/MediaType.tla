------------------------------- MODULE MediaType -------------------------------
(***************************************************************************)
(* media_type_match of proxyTransformation.c: is the Content-Type of a     *)
(* response in the list of media types that are transformed?  The list is  *)
(* scanned once, character by character.  A list is the array that holds   *)
(* it, with whatever follows its NUL; what is past the sequence is NUL.    *)
(***************************************************************************)
EXTENDS Integers, Sequences

NUL == "NUL"

\* the character of the array a at the index i of the C code
At(a, i) == IF i + 1 \in 1 .. Len(a) THEN a[i + 1] ELSE NUL

SubtypeEnds == {";", ",", " ", NUL}

\* Mutant of Skipped: the comma itself is taken for the next entry
SkippedEarly(types, i) == At(types, i) = ","

\* line 256: the type that is skipped ended before i
Skipped(types, i) == At(types, i - 1) = ","

\* the rest of the loop, from the switch with these i, j and state
RECURSIVE Match(_, _, _, _, _)

\* line 272, where i is the index after the switch
NextChar(types, type, i, j, state) ==
    IF At(types, i) = NUL /\ i > 0 THEN FALSE ELSE Match(types, type, i + 1, j, state)

Match(types, type, i, j, state) ==
    LET c == At(types, i)
        same == c = At(type, j)
    IN  CASE state = "MATCH_TYPE" ->
              IF ~same THEN NextChar(types, type, i, j, "SKIP_TYPE")
              ELSE IF c # "/" THEN NextChar(types, type, i, j + 1, "MATCH_TYPE")
              ELSE At(types, i + 1) = "*" \/ NextChar(types, type, i, j + 1, "MATCH_SUBTYPE")
          [] state = "MATCH_SUBTYPE" ->
              IF c \in SubtypeEnds
              THEN At(type, j) \in {";", " ", NUL} \/ NextChar(types, type, i, j, "SKIP_TYPE")
              ELSE IF same THEN NextChar(types, type, i, j + 1, "MATCH_SUBTYPE")
              ELSE NextChar(types, type, i, j, "SKIP_TYPE")
          [] state = "SKIP_TYPE" ->
              IF Skipped(types, i)
              THEN NextChar(types, type, i - 1, j, "SKIP_SPACES")
              ELSE NextChar(types, type, i, j, "SKIP_TYPE")
          [] state = "SKIP_SPACES" ->
              IF c = " " THEN NextChar(types, type, i, j, "SKIP_SPACES")
              ELSE c = "*" \/ NextChar(types, type, i - 1, 0, "MATCH_TYPE")

\* s from its n-th element on, up to the first element that is in ends
From(s, n, ends) ==
    LET stop == {i \in n .. Len(s) : s[i] \in ends}
    IN  SubSeq(s, n, IF stop = {} THEN Len(s) ELSE (CHOOSE i \in stop : \A k \in stop : i <= k) - 1)

\* s without the spaces it starts with
NoSpaces(s) ==
    LET at == {i \in 1 .. Len(s) : s[i] # " "}
    IN  IF at = {} THEN <<>> ELSE SubSeq(s, CHOOSE i \in at : \A k \in at : i <= k, Len(s))

media_type_match(types, type) == Match(types, NoSpaces(type), 0, 0, "SKIP_SPACES")

-----------------------------------------------------------------------------
(* What a list means. *)

\* the entries of a list, between its commas
Entries(list) ==
    {NoSpaces(From(list, n, {","})) :
        n \in {1} \cup {i + 1 : i \in {k \in 1 .. Len(list) : list[k] = ","}}}

\* the entry is "*", "type/*" or the type itself; parameters do not count
EntryMatches(entry, type) ==
    LET name == From(entry, 1, {";", " "})
        kind == From(name, 1, {"/"})
        slashed == Len(kind) < Len(name)
    IN  \/ entry # <<>> /\ entry[1] = "*"
        \/ /\ slashed /\ kind = From(type, 1, {"/"}) /\ Len(kind) < Len(type)
           /\ \/ Len(name) > Len(kind) + 1 /\ name[Len(kind) + 2] = "*"
              \/ name = From(type, 1, {";", " "})

Listed(types, type) ==
    \E entry \in Entries(From(types, 1, {NUL})) : EntryMatches(entry, NoSpaces(type))
=============================================================================
