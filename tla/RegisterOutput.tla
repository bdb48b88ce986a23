---------------------------- MODULE RegisterOutput ----------------------------
(***************************************************************************)
(* How live-nitro-run finds the ids of the enclave it has registered: it   *)
(* scans what register:enclave and the programs around it have printed     *)
(* for JSON objects.                                                       *)
(*                                                                         *)
(* An output is a sequence of characters: braces "OPEN" and "CLOSE",       *)
(* quotes "Q", backslashes "B" and any other.                              *)
(***************************************************************************)
EXTENDS Naturals, Sequences, SequencesExt, FiniteSets

\* One character.  Mutant: strings are not told from the rest.
NoStrings(s, c) ==
  CASE c = "OPEN" -> [s EXCEPT !.depth = @ + 1]
    [] c = "CLOSE" -> [s EXCEPT !.depth = @ - 1]
    [] OTHER -> s
Scan(s, c) ==
  IF s.inString
  THEN [s EXCEPT !.escaped = ~@ /\ c = "B",
                 !.inString = s.escaped \/ c # "Q"]
  ELSE CASE c = "Q" -> [s EXCEPT !.inString = TRUE]
         [] c = "OPEN" -> [s EXCEPT !.depth = @ + 1]
         [] c = "CLOSE" -> [s EXCEPT !.depth = @ - 1]
         [] OTHER -> s

\* jsonObjects: the stretches of text from a brace at depth 0 to the brace
\* that closes it.
Begun == [at |-> [depth |-> 0, inString |-> FALSE, escaped |-> FALSE],
          start |-> 0, found |-> <<>>]
Read(s, text, i) ==
  LET t == Scan(s.at, text[i])
      start == IF t.depth > s.at.depth /\ s.at.depth = 0 THEN i ELSE s.start
  IN IF t.depth < s.at.depth /\ t.depth = 0 /\ start > 0
     THEN [at |-> t, start |-> 0, found |-> Append(s.found, SubSeq(text, start, i))]
     ELSE [at |-> t, start |-> start, found |-> s.found]
JsonObjects(text) ==
  LET upTo[n \in 0..Len(text)] ==
        IF n = 0 THEN Begun ELSE Read(upTo[n - 1], text, n)
  IN upTo[Len(text)].found

\* extractRegisterResult, given which texts are JSON objects and which of these
\* say register_enclave: the first of the latter; none, or text in braces that
\* is no JSON before it or after it, is an error.
ExtractRegisterResult(text, jsonObjects, registerResults) ==
  LET found == JsonObjects(text)
      registers == {i \in DOMAIN found : found[i] \in registerResults}
  IN IF ToSet(found) \subseteq jsonObjects /\ registers # {}
     THEN found[CHOOSE i \in registers : \A j \in registers : i <= j]
     ELSE <<>>

-----------------------------------------------------------------------------
(* What is printed, by JSON's own grammar: a sequence of lexemes, each a   *)
(* text.                                                                   *)

\* A string: a quote at either end and, between them, only escaped ones.  A
\* backslash escapes what follows it unless it is escaped itself.
IsString(s) ==
  /\ Len(s) >= 2
  /\ \E escaped \in SUBSET DOMAIN s : \A i \in DOMAIN s :
        /\ i \in escaped <=> i > 1 /\ s[i - 1] = "B" /\ i - 1 \notin escaped
        /\ i \in {1, Len(s)} <=> s[i] = "Q" /\ i \notin escaped

IsLexeme(s) == IsString(s) \/ (Len(s) = 1 /\ s[1] # "Q")

Text(lexemes) ==
  LET upTo[n \in 0..Len(lexemes)] ==
        IF n = 0 THEN <<>> ELSE upTo[n - 1] \o lexemes[n]
  IN upTo[Len(lexemes)]

Opening == <<"OPEN">>
Closing == <<"CLOSE">>

Count(lexemes, n, l) == Cardinality({i \in 1..n : lexemes[i] = l})

\* Braces are closed in the end and not before.
IsObject(lexemes) ==
  /\ Len(lexemes) >= 2
  /\ \A n \in 1..Len(lexemes) :
       IF n < Len(lexemes)
       THEN Count(lexemes, n, Opening) > Count(lexemes, n, Closing)
       ELSE Count(lexemes, n, Opening) = Count(lexemes, n, Closing)

\* Braces occur in strings only.
IsNoise(lexemes) == \A i \in DOMAIN lexemes : lexemes[i] \notin {Opening, Closing}
=============================================================================
