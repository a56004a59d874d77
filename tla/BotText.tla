------------------------------ MODULE BotText -------------------------------
(* The reader of the bot's HTTP stream (bot/http_stream.go) and its sentence  *)
(* parser (bot/parser.go): a reply that arrives in chunks cut anywhere,       *)
(* inside a rune too, becomes sentences and an action.  A sentence is the     *)
(* place it has in the reply.                                                 *)
EXTENDS Naturals, Sequences, FiniteSets

\* Bytes, by what the parser tells apart: the blank, the newline, which is a
\* delimiter as well, another delimiter, the three bytes of the ellipsis, none
\* of which is a byte of another rune, the bar, the ENDCALL token; a letter.
Bytes == {"w", " ", "nl", ".", "e1", "e2", "e3", "|", "ENDCALL"}
Ellipsis == <<"e1", "e2", "e3">>

CONSTANT Texts  \* what bots may send: sequences of bytes
ASSUME TextAssumption == Texts \subseteq Seq(Bytes)

VARIABLES text,       \* the whole reply
          got,        \* how many of its bytes have been read
          flushedTo,  \* SentenceParser.flushedTo
          sent,       \* sentences sent to the channel
          reading,    \* "read", "ok" (closed with an action) or "failed"
          action      \* the action of a reply that is over

textVars == <<text, got, flushedTo, sent, reading, action>>

BotIdle ==
    /\ text \in Texts
    /\ got = 0 /\ flushedTo = 0 /\ sent = <<>>
    /\ reading = "read" /\ action = "none"

\* isSentenceDelim of the rune that ends with byte i.
Delim(i) ==
    \/ text[i] \in {".", "nl"}
    \/ i >= 3 /\ SubSeq(text, i - 2, i) = Ellipsis

\* What strings.TrimSpace leaves at the borders of a sentence.
Ink(bytes) == {i \in bytes : text[i] \notin {" ", "nl"}}

\* The bytes are a sentence, from their first ink to the last, if they have any.
Flush(bytes) ==
    IF Ink(bytes) = {} THEN UNCHANGED sent
    ELSE \E a, b \in Ink(bytes) :
           /\ \A i \in Ink(bytes) : a <= i /\ i <= b
           /\ sent' = Append(sent, [from |-> a, to |-> b])

\* A bug: the scan compares bytes, so it never sees an ellipsis.
Ends_BytesNotRunes == {i \in flushedTo + 1 .. got : text[i] \in {".", "nl"}}

\* Where the scan sees a delimiter end in what has been read.  It begins again
\* at flushedTo with each chunk, so a rune that was cut is seen whole; one that
\* began before flushedTo would not be.
Ends == {i \in flushedTo + 1 .. got :
           Delim(i) /\ (text[i] = "e3" => i >= flushedTo + 3)}

\* Body.Read returns the bytes up to the n-th; the sentences before were sent.
Read(n) ==
    /\ reading = "read" /\ Ends = {}
    /\ n \in got + 1 .. Len(text)
    /\ got' = n
    /\ UNCHANGED <<text, flushedTo, sent, reading, action>>

\* The next sentence of Feed, sent.  Feed cuts all sentences of a chunk before
\* the first is sent, but looks at flushedTo again with the next chunk only.
Cut ==
    /\ reading = "read"
    /\ \E e \in Ends :
         /\ \A i \in Ends : e <= i
         /\ Flush(flushedTo + 1 .. e)
         /\ flushedTo' = e
    /\ UNCHANGED <<text, got, reading, action>>

\* What comes before the last bar, or all of a reply without one.
Bars == {i \in DOMAIN text : text[i] = "|"}
Content == {i \in DOMAIN text : Bars = {} \/ \E bar \in Bars : i < bar}

\* The first word after the last bar; anything but ENDCALL is CHAT.
ActionOf ==
    IF \E bar \in Bars, i \in DOMAIN text :
         /\ \A b \in Bars : b <= bar
         /\ bar < i /\ text[i] = "ENDCALL" /\ Ink(bar + 1 .. i - 1) = {}
    THEN "ENDCALL" ELSE "CHAT"

\* EOF: what is left before the last bar is a sentence, too.
Finalize ==
    /\ reading = "read" /\ got = Len(text) /\ Ends = {}
    /\ Flush({i \in Content : flushedTo < i})
    /\ action' = ActionOf
    /\ reading' = "ok"
    /\ UNCHANGED <<text, got, flushedTo>>

\* A read error, or the context ends while a sentence waits for the channel.
ReadFails ==
    /\ reading = "read"
    /\ reading' = "failed"
    /\ UNCHANGED <<text, got, flushedTo, sent, action>>

BotTextNext == (\E n \in 1 .. Len(text) : Read(n)) \/ Cut \/ Finalize \/ ReadFails

\* ----------------------------------------------------------------- properties

\* The bytes of the k-th sentence; those of all sentences.
Sentence(k) == sent[k].from .. sent[k].to
Said == UNION {Sentence(k) : k \in DOMAIN sent}

\* What must have been said: all up to flushedTo, and in the end all content.
Due == {i \in DOMAIN text : i <= flushedTo \/ (reading = "ok" /\ i \in Content)}

\* The sentences are the reply, however the network cut it into chunks (parser.go
\* 18-24): complete and in order but for blanks, with a delimiter between any two
\* and none inside one; nothing of the action is said unless a delimiter follows.
SpokenIsText ==
    /\ Ink(Due) \subseteq Said /\ Said \subseteq Due
    /\ \A k \in DOMAIN sent : \A i \in Sentence(k) : i < sent[k].to => ~Delim(i)
    /\ \A j, k \in DOMAIN sent : j < k =>
         \E i \in sent[j].to .. sent[k].from - 1 : Delim(i)

\* "excluding the |<ACTION> suffix" (parser.go 57): no word of the action is
\* spoken, also when a proxy appends a trailer to it (parser.go 65-69).
ActionIsNotSpoken ==
    action = "ENDCALL" /\ Cardinality(Bars) = 1 =>
        \A i \in Said : text[i] = "ENDCALL" => i \in Content
=============================================================================
