----------------------------- MODULE MCSlackReply -----------------------------
(***************************************************************************)
(* SlackReply for TLC: an eval and two lines of chat around it, a log of   *)
(* one line, replies of no message up to two.                              *)
(***************************************************************************)
EXTENDS SlackReply

CONSTANTS eval, t1, t2, bot, nl

MCMessage == {eval, t1, t2, bot}
MCCode == {eval}
MCMentioning == {t2}
MCIgnored == {bot}

Reply(ok, output) == [ok |-> ok, output |-> output, warnings |-> 0]

\* No message (newlines only), one, and two.
MCResults == {Reply(TRUE, <<Blank, Blank>>), Reply(FALSE, <<Blank>>),
              Reply(TRUE, <<<<"a", "b">>, <<"d", "e">>>>)}

\* Every text of up to MaxText characters and newlines: the positions 1..n
\* are characters, all different, or ends of lines.
MaxText == 8
Alphabet == <<"a", "b", "c", "d", "e", "f", "g", "h">>

TextOf(n, ends) ==
    LET put(text, i) == IF i \in ends THEN Append(text, Blank)
                        ELSE [text EXCEPT ![Len(text)] = Append(@, Alphabet[i])]
    IN  FoldLeft(put, <<Blank>>, [i \in 1..n |-> i])

MCCharacter == Range(Alphabet)
MCOutputs == UNION {{TextOf(n, ends) : ends \in SUBSET (1..n)} : n \in 0..MaxText}
MCWarnings == {0, 1}

=============================================================================
