------------------------------ MODULE ReplyFormat ------------------------------
(***************************************************************************)
(* How the output of an eval becomes Slack messages: chunk_output of       *)
(* smeggdrop/platforms/__init__.py and format_reply of platforms/slack.py. *)
(*                                                                         *)
(* A text is a sequence of lines, a line a sequence of characters, so that *)
(* an empty output is one empty line.  A message is a sequence of          *)
(* characters, newlines included.  What format_reply adds ("error: ", a    *)
(* warning, ...) counts as one character each.  Replacing mentions, irc    *)
(* formatting and fences within a line comes before and is left out.       *)
(***************************************************************************)
EXTENDS Integers, Sequences, SequencesExt

CONSTANTS
    MaxChars,       \* MAX_MESSAGE_CHARS, the max_chunk of chunk_output
    MaxMessages,    \* MAX_MESSAGES
    MaxChunks,      \* its max_chunks, MAX_MESSAGES * 50
    Newline,        \* a character no line contains
    Character,      \* those of the evals' outputs
    Outputs,        \* the texts that evals return
    Warnings        \* the numbers of warnings they come with

ASSUME FormatAssumption ==
    /\ MaxChars \in Nat \ {0} /\ MaxMessages \in Nat \ {0} /\ MaxChunks \in Nat \ {0}
    /\ Outputs \subseteq Seq(Seq(Character)) \ {<<>>}
    /\ Warnings \subseteq Nat

Blank == <<>>
NoOutput == <<"(no output)">>
ErrorPrefix == <<"error: ">>
Warning == <<"warning: ...">>
LinesCut == <<"error: output truncated to ... lines total">>
MessagesCut == <<Newline, "(truncated)">>

Added == {"(no output)", "error: ", "warning: ...", Newline, "(truncated)",
          "error: output truncated to ... lines total"}

\* What is added counts as characters of its own.
ASSUME CharacterAssumption == Character \cap Added = {}

-----------------------------------------------------------------------------
(* chunk_output. *)

\* Mutant of Piece: each slice begins where the one before it ended.
PieceOverlapping(line, k) ==
    SubSeq(line, IF k = 1 THEN 1 ELSE (k - 1) * MaxChars,
           IF k * MaxChars < Len(line) THEN k * MaxChars ELSE Len(line))

\* The k-th slice of a line that is longer than a message.
Piece(line, k) ==
    SubSeq(line, (k - 1) * MaxChars + 1,
           IF k * MaxChars < Len(line) THEN k * MaxChars ELSE Len(line))

Pieces(line) ==
    IF line = Blank THEN <<Blank>>
    ELSE [k \in 1..((Len(line) - 1) \div MaxChars + 1) |-> Piece(line, k)]

Slices(text) == FlattenSeq([i \in DOMAIN text |-> Pieces(text[i])])

chunk_output(text) ==
    IF Len(Slices(text)) > MaxChunks
    THEN Append(SubSeq(Slices(text), 1, MaxChunks - 1), LinesCut)
    ELSE Slices(text)

-----------------------------------------------------------------------------
(* format_reply. *)

Body(ok, output, warnings) ==
    LET shown == IF output = <<Blank>> THEN <<NoOutput>> ELSE output
        marked == IF ok THEN shown ELSE [shown EXCEPT ![1] = ErrorPrefix \o @]
    IN  marked \o [i \in 1..warnings |-> Warning]

Joined(current, line) ==
    IF current = Blank THEN line ELSE current \o <<Newline>> \o line

\* Mutant of Overflows: the newline between the two is not counted.
OverflowsWithoutNewline(current, line) == Len(current) + Len(line) > MaxChars

Overflows(current, line) == Len(Joined(current, line)) > MaxChars

\* A line joins the message that is being filled if it fits.
Gather(sofar, line) ==
    IF Overflows(sofar.current, line)
    THEN [done |-> Append(sofar.done, sofar.current), current |-> line]
    ELSE [sofar EXCEPT !.current = Joined(sofar.current, line)]

\* What the loop has made of the first lines, for each number of them.
Gatherings(text) ==
    LET sofar[i \in 0..Len(text)] ==
            IF i = 0 THEN [done |-> <<>>, current |-> Blank] ELSE Gather(sofar[i - 1], text[i])
    IN  sofar

Gathered(text) ==
    LET end == Gatherings(text)[Len(text)]
    IN  IF end.current = Blank THEN end.done ELSE Append(end.done, end.current)

format_reply(ok, output, warnings) ==
    LET messages == Gathered(chunk_output(Body(ok, output, warnings)))
    IN  IF Len(messages) > MaxMessages
        THEN [SubSeq(messages, 1, MaxMessages) EXCEPT ![MaxMessages] = @ \o MessagesCut]
        ELSE messages

-----------------------------------------------------------------------------
(* What format_reply promises of an output. *)

Unadded(characters) ==
    FlattenSeq([i \in DOMAIN characters |->
                   IF characters[i] \in Added THEN <<>> ELSE <<characters[i]>>])

LengthOf(text) == Len(FlattenSeq(text)) + Len(text) - 1

\* The messages hold the output's characters in their order, from the first
\* on, and all of them if there are not too many lines and half as many full
\* messages could hold the body.
KeepsText(ok, output, warnings) ==
    LET body == Body(ok, output, warnings)
        kept == Unadded(FlattenSeq(format_reply(ok, output, warnings)))
    IN  /\ IsPrefix(kept, FlattenSeq(output))
        /\ Len(Slices(body)) <= MaxChunks
              /\ LengthOf(body) <= ((MaxMessages + 1) \div 2) * MaxChars
           => kept = FlattenSeq(output)

\* Every message can be posted: not empty, no longer than a message may be
\* (but for the note that the rest is missing).  There is none exactly when
\* the output consists of newlines only, and of few enough of them.
FitsSlack(ok, output, warnings) ==
    LET messages == format_reply(ok, output, warnings)
    IN  /\ Len(messages) <= MaxMessages
        /\ \A i \in DOMAIN messages :
              /\ messages[i] # Blank
              /\ Len(messages[i]) <= MaxChars + (IF i = MaxMessages THEN Len(MessagesCut) ELSE 0)
        /\ messages = <<>> <=>
              ok /\ warnings = 0 /\ Len(output) \in 2..MaxChunks /\ \A i \in DOMAIN output : output[i] = Blank

=============================================================================
