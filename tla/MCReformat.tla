----------------------------- MODULE MCReformat -----------------------------
(***************************************************************************)
(* All short texts, and a formatter that indents lines and adds or removes *)
(* the newline at the end of the text.                                     *)
(***************************************************************************)
EXTENDS Reformat

MCSources == SeqOf(Chars, 4)

\* Each line indented or not, with or without a newline at the end.
MCFormats(t) ==
  LET starts == {k \in DOMAIN t : k = 1 \/ k - 1 \in Newlines(t)}
      lines == [k \in starts |-> Trimmed(LineAt(t, k))]
      Indented(k, in) == IF k \in in /\ Len(lines[k]) > 1
                         THEN <<"space">> \o lines[k] ELSE lines[k]
  IN  {FlattenSeq([k \in DOMAIN t |-> IF k \in starts THEN Indented(k, in) ELSE <<>>]) \o ending :
         in \in SUBSET starts, ending \in {<<>>, <<"lf">>}}

MCStyles == Style
=============================================================================
