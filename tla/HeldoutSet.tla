----------------------------- MODULE HeldoutSet -----------------------------
(***************************************************************************)
(* The text of a held-out set, read twice: by the sealing scripts, which   *)
(* validate it and commit to the number of its items, and by the enclave,  *)
(* which scores the items it finds in it.                                  *)
(*                                                                         *)
(* A text is a sequence of line feeds, carriage returns, spaces and whole  *)
(* items, which stand for their JSON and for their id.  "odd" is an item   *)
(* JSON.parse takes and serde_json refuses: with a key given twice, say,   *)
(* or half of a surrogate pair.                                            *)
(***************************************************************************)
EXTENDS Naturals, Sequences, SequencesExt

Blank == {"SP", "CR"}
Refused == <<>>    \* no set of no items is ever accepted

\* The text cut at its line feeds.
Cut(pieces, c) ==
  IF c = "LF" THEN Append(pieces, <<>>)
  ELSE [pieces EXCEPT ![Len(pieces)] = Append(@, c)]
Pieces(text) ==
  LET upTo[n \in 0..Len(text)] ==
        IF n = 0 THEN <<<<>>>> ELSE Cut(upTo[n - 1], text[n])
  IN upTo[Len(text)]

DropCR(line) == IF line # <<>> /\ Last(line) = "CR" THEN Front(line) ELSE line

Items(line) == SelectSeq(line, LAMBDA c : c \notin Blank)
IsBlank(line) == Items(line) = <<>>

-----------------------------------------------------------------------------
(* validateHeldoutSetText.                                                 *)

\* split(/\r?\n/), without what follows a final line break.  Mutant: a lone
\* carriage return breaks a line too.
SplitAtCR(text) ==
  LET lf == [i \in DOMAIN text |-> IF text[i] = "CR" THEN "LF" ELSE text[i]]
  IN SelectSeq(Pieces(lf), LAMBDA line : line # <<>>)
SplitJsonl(text) ==
  LET pieces == Pieces(text)
      lines == [i \in DOMAIN pieces |->
                  IF i < Len(pieces) THEN DropCR(pieces[i]) ELSE pieces[i]]
  IN IF Last(lines) = <<>> THEN Front(lines) ELSE lines

\* Every line holds one item, under an id of its own, and there are enough.
ValidateHeldoutSet(text, minItems) ==
  LET lines == SplitJsonl(text)
      items == [i \in DOMAIN lines |-> Items(lines[i])]
  IN IF /\ Len(lines) >= minItems
        /\ \A i \in DOMAIN items : Len(items[i]) = 1
        /\ IsInjective(items)
     THEN [i \in DOMAIN items |-> items[i][1]]
     ELSE Refused

-----------------------------------------------------------------------------
(* The enclave's parse_items, of the same bytes.                           *)

\* lines(): a carriage return goes only before a line feed.
RustLines(text) ==
  LET pieces == Pieces(text)
      ended == [i \in 1..(Len(pieces) - 1) |-> DropCR(pieces[i])]
  IN IF Last(pieces) = <<>> THEN ended ELSE Append(ended, Last(pieces))

\* filter(), of the lines that are not blank.
Filled(lines) ==
  LET upTo[n \in 0..Len(lines)] ==
        IF n = 0 THEN <<>>
        ELSE IF IsBlank(lines[n]) THEN upTo[n - 1]
        ELSE Append(upTo[n - 1], lines[n])
  IN upTo[Len(lines)]

ParseItems(text) ==
  LET lines == Filled(RustLines(text))
  IN IF \A i \in DOMAIN lines : Len(Items(lines[i])) = 1 /\ Items(lines[i]) # <<"odd">>
     THEN [i \in DOMAIN lines |-> Items(lines[i])[1]]
     ELSE Refused
=============================================================================
