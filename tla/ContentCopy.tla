------------------------------ MODULE ContentCopy ------------------------------
(***************************************************************************)
(* What a formatter promises about content: whatever it does to the        *)
(* whitespace, it writes every comment and every token of its source, each *)
(* once, in the order of the source, one at a time or several at once, and *)
(* it gets to the end.                                                     *)
(***************************************************************************)
EXTENDS Naturals, Sequences

CONSTANT Sources    \* sequences of content to be copied

VARIABLES
  source,   \* the content of the source, in order
  copied    \* the content written so far

Init == source \in Sources /\ copied = <<>>

CopyNext ==
  /\ LET all == source
     IN  \E n \in (Len(copied) + 1)..Len(all) : copied' = SubSeq(all, 1, n)
  /\ UNCHANGED source

Safety == Init /\ [][CopyNext]_<<source, copied>>

Spec == Safety /\ WF_<<source, copied>>(CopyNext)

\* What the fairness is for, and what it amounts to.
Finishes == <>(copied = source)
=============================================================================
