--------------------------- MODULE StreamsProofs ----------------------------
(* One reader of the caller's frames and one sender into a stream, for any    *)
(* number of streams and any sizes of the channels between the FIFO and the   *)
(* recogniser; the sentences of a reply of any length in any chunks.          *)
EXTENDS Streams, FiniteSetTheorems, SequenceTheorems, TLAPS

\* ------------------------------------------------------------ the caller's voice

\* While a Speak is under way: it has been begun and not been joined.
SpeakRuns == run \in {"speak", "stopping", "join"}

\* The monitor's pump and the drain live inside a Speak, and never together:
\* a Speak starts the one or the other, and is joined when both are over.
ReaderInv ==
    /\ pump # "off" => SpeakRuns
    /\ drain => SpeakRuns
    /\ ~(pump # "off" /\ drain)
    /\ drain \in BOOLEAN

\* The actions that belong to neither Speak nor its goroutines keep pump and
\* drain, and find run outside a Speak where they change it.
LEMMA OthersKeep ==
    ASSUME \/ ListenStep \/ Timer \/ Defers \/ Reader \/ FrameRead \/ HangUp
           \/ ServerReads \/ ServerEnds
           \/ \E s \in Streams : Recv(s) \/ ServerAnswers(s)
    PROVE  /\ UNCHANGED <<pump, drain>>
           /\ ~SpeakRuns \/ UNCHANGED run
<1> USE DEF monVars, SpeakRuns
<1>1. CASE ListenStep
  <2>1. CASE ListenBegins
    BY <2>1 DEF ListenBegins
  <2>2. CASE ListenReturns
    BY <2>2 DEF ListenReturns
  <2>3. CASE ListenTakes
    BY <2>3 DEF ListenTakes
  <2>4. CASE ListenSent
    BY <2>4 DEF ListenSent
  <2>5. CASE ListenHears
    BY <2>5 DEF ListenHears
  <2>6. CASE ListenOutClosed
    BY <2>6 DEF ListenOutClosed
  <2>7. CASE ListenLeaves
    BY <2>7 DEF ListenLeaves
  <2> QED BY <1>1, <2>1, <2>2, <2>3, <2>4, <2>5, <2>6, <2>7 DEF ListenStep
<1>2. CASE Timer
  BY <1>2 DEF Timer, ListenHalfCloses, DrainTimeout
<1>3. CASE Defers
  BY <1>3 DEF Defers, RunEnds, CloseSource, SourceClosed
<1>4. CASE Reader
  BY <1>4 DEF Reader, ReaderChecks, ReadInterrupted, ReaderSends
<1>5. CASE FrameRead \/ HangUp \/ ServerReads \/ ServerEnds
  BY <1>5 DEF FrameRead, HangUp, ServerReads, ServerEnds
<1>6. CASE \E s \in Streams : Recv(s) \/ ServerAnswers(s)
  BY <1>6 DEF Recv, RecvEmits, RecvEnds, ServerAnswers
<1> QED BY <1>1, <1>2, <1>3, <1>4, <1>5, <1>6

\* Speak's own steps: it starts one of the two, and is joined by both.
LEMMA SpeakKeeps ==
    ASSUME ReaderInv, SpeakStep
    PROVE  ReaderInv'
<1> USE DEF monVars, SpeakRuns, ReaderInv
<1>1. CASE SpeakBegins
  <2>1. pump = "off" /\ ~drain
    BY <1>1 DEF SpeakBegins
  <2>2. SpeakRuns'
    BY <1>1 DEF SpeakBegins
  <2>3. CASE pump' = "take" /\ drain' = drain
    BY <2>1, <2>2, <2>3
  <2>4. CASE drain' = TRUE /\ pump' = pump
    BY <2>1, <2>2, <2>4
  <2> QED BY <1>1, <2>3, <2>4 DEF SpeakBegins
<1>2. CASE SpeakEnds
  BY <1>2 DEF SpeakEnds
<1>3. CASE StopCloses
  BY <1>3 DEF StopCloses
<1>4. CASE Joined
  BY <1>4 DEF Joined
<1>5. CASE NextTurn
  BY <1>5 DEF NextTurn
<1> QED BY <1>1, <1>2, <1>3, <1>4, <1>5 DEF SpeakStep

\* The goroutines of a Speak may end, none of them starts.
LEMMA HelpersKeep ==
    ASSUME ReaderInv, Pump \/ Watcher \/ Drain
    PROVE  ReaderInv'
<1> USE DEF monVars, SpeakRuns, ReaderInv
<1>1. CASE Pump
  BY <1>1 DEF Pump, PumpTakes, PumpLocks, PumpSent, PumpStops
<1>2. CASE Watcher
  BY <1>2 DEF Watcher, WatcherTakes, WatcherEnds
<1>3. CASE Drain
  BY <1>3 DEF Drain, DrainTakes, DrainStops
<1> QED BY <1>1, <1>2, <1>3

\* Every step of the audio half keeps it.
LEMMA ReaderKeeps ==
    ASSUME ReaderInv, [AudioNext]_audioVars
    PROVE  ReaderInv'
<1>1. CASE SpeakStep
  BY <1>1, SpeakKeeps
<1>2. CASE Pump \/ Watcher \/ Drain
  BY <1>2, HelpersKeep
<1>3. CASE \/ ListenStep \/ Timer \/ Defers \/ Reader \/ FrameRead \/ HangUp
           \/ ServerReads \/ ServerEnds
           \/ \E s \in Streams : Recv(s) \/ ServerAnswers(s)
  BY <1>3, OthersKeep DEF ReaderInv, SpeakRuns
<1>4. CASE UNCHANGED audioVars
  BY <1>4 DEF audioVars, monVars, ReaderInv, SpeakRuns
<1> QED BY <1>1, <1>2, <1>3, <1>4 DEF AudioNext

\* sendMu is held by whoever is in a Send.
MuInv ==
    /\ up \in [mu : BOOLEAN, sendClosed : BOOLEAN, closed : BOOLEAN, unread : Nat, srv : BOOLEAN]
    /\ up.mu <=> pump = "sending" \/ run = "sending"

\* A stream starts, and is given up, with sendMu free.
LEMMA FreshUp ==
    /\ NewUp.mu = FALSE /\ NoUp.mu = FALSE
    /\ NewUp.sendClosed = FALSE /\ NoUp.sendClosed = FALSE
    /\ NewUp \in [mu : BOOLEAN, sendClosed : BOOLEAN, closed : BOOLEAN, unread : Nat, srv : BOOLEAN]
    /\ NoUp \in [mu : BOOLEAN, sendClosed : BOOLEAN, closed : BOOLEAN, unread : Nat, srv : BOOLEAN]
BY DEF NewUp, NoUp

\* The end of a Send, and a frame that the server has read.
LEMMA WindowMoves ==
    ASSUME MuInv
    PROVE  /\ SendDone => /\ ~up'.mu /\ up'.sendClosed = up.sendClosed
                          /\ up' \in [mu : BOOLEAN, sendClosed : BOOLEAN, closed : BOOLEAN,
                                     unread : Nat, srv : BOOLEAN]
           /\ ServerReads => /\ up'.mu = up.mu /\ up'.sendClosed = up.sendClosed
                             /\ up' \in [mu : BOOLEAN, sendClosed : BOOLEAN, closed : BOOLEAN,
                                        unread : Nat, srv : BOOLEAN]
<1> DEFINE T == [mu : BOOLEAN, sendClosed : BOOLEAN, closed : BOOLEAN, unread : Nat,
                 srv : BOOLEAN]
<1>1. up \in T /\ up.unread \in Nat
  BY DEF MuInv
<1>2. ASSUME NEW n \in Nat
      PROVE  /\ [up EXCEPT !.mu = FALSE, !.unread = n] \in T
             /\ [up EXCEPT !.unread = n] \in T
  BY <1>1
<1>3. CASE SendDone
  <2>1. PICK n \in Nat : up' = [up EXCEPT !.mu = FALSE, !.unread = n]
    <3>1. CASE SendOk
      <4>1. up' = [up EXCEPT !.mu = FALSE, !.unread = up.unread + 1]
        BY <1>3, <3>1 DEF SendDone
      <4>2. up.unread + 1 \in Nat
        BY <1>1
      <4> QED BY <4>1, <4>2
    <3>2. CASE ~SendOk
      BY <1>1, <1>3, <3>2 DEF SendDone
    <3> QED BY <3>1, <3>2
  <2>2. up' \in T
    BY <1>2, <2>1
  <2> QED BY <1>1, <2>1, <2>2 DEF ServerReads
<1>4. CASE ServerReads
  <2>1. up.unread - 1 \in Nat /\ up' = [up EXCEPT !.unread = up.unread - 1]
    BY <1>1, <1>4 DEF ServerReads
  <2>2. up' \in T
    BY <1>2, <2>1
  <2> QED BY <1>1, <2>1, <2>2 DEF SendDone
<1> QED BY <1>3, <1>4

\* What a step may do to the stream's sending side: with sendMu free it ends or
\* starts a stream; with it held it leaves all but sendMu and the window alone.
SendSide == cur' # cur \/ up'.sendClosed # up.sendClosed => ~up.mu

\* Speak and its goroutines: the pump is the only sender in a Speak, Close waits
\* for it.
LEMMA SpeakSends ==
    ASSUME ReaderInv, MuInv, SpeakStep \/ Pump \/ Watcher \/ Drain
    PROVE  MuInv' /\ SendSide
<1> USE FreshUp DEF ReaderInv, SpeakRuns, MuInv, SendSide, monVars, sourceVars
<1>1. CASE SpeakStep
  <2>1. CASE SpeakBegins
    BY <2>1 DEF SpeakBegins, StartStream
  <2>2. CASE SpeakEnds
    BY <2>2 DEF SpeakEnds
  <2>3. CASE StopCloses
    BY <2>3 DEF StopCloses, CloseStream
  <2>4. CASE Joined
    BY <2>4 DEF Joined
  <2>5. CASE NextTurn
    BY <2>5 DEF NextTurn
  <2> QED BY <1>1, <2>1, <2>2, <2>3, <2>4, <2>5 DEF SpeakStep
<1>2. CASE Pump
  <2>1. CASE PumpTakes \/ PumpStops
    BY <2>1 DEF PumpTakes, PumpStops
  <2>2. CASE PumpLocks
    BY <2>2 DEF PumpLocks
  <2>3. CASE PumpSent
    BY <2>3, WindowMoves DEF PumpSent
  <2> QED BY <1>2, <2>1, <2>2, <2>3 DEF Pump
<1>3. CASE Watcher \/ Drain
  BY <1>3 DEF Watcher, WatcherTakes, WatcherEnds, Drain, DrainTakes, DrainStops
<1> QED BY <1>1, <1>2, <1>3

\* Listen: one goroutine sends, half-closes and closes.
LEMMA ListenSends ==
    ASSUME ReaderInv, MuInv, ListenStep \/ Timer
    PROVE  MuInv' /\ SendSide
<1> USE FreshUp DEF ReaderInv, SpeakRuns, MuInv, SendSide, monVars, sourceVars
<1>1. CASE ListenBegins
  BY <1>1 DEF ListenBegins, StartStream
<1>2. CASE ListenReturns
  BY <1>2 DEF ListenReturns
<1>3. CASE ListenTakes
  BY <1>3 DEF ListenTakes
<1>4. CASE ListenSent
  BY <1>4, WindowMoves DEF ListenSent
<1>5. CASE ListenHears
  BY <1>5 DEF ListenHears
<1>6. CASE ListenOutClosed
  BY <1>6 DEF ListenOutClosed
<1>7. CASE ListenLeaves
  BY <1>7 DEF ListenLeaves, CloseStream
<1>8. CASE Timer
  BY <1>8 DEF Timer, ListenHalfCloses, DrainTimeout
<1> QED BY <1>1, <1>2, <1>3, <1>4, <1>5, <1>6, <1>7, <1>8 DEF ListenStep

\* All others are no senders.
LEMMA OthersSend ==
    ASSUME ReaderInv, MuInv,
           \/ Defers \/ Reader \/ FrameRead \/ HangUp \/ ServerReads \/ ServerEnds
           \/ \E s \in Streams : Recv(s) \/ ServerAnswers(s)
           \/ UNCHANGED audioVars
    PROVE  MuInv' /\ SendSide
<1> USE DEF ReaderInv, SpeakRuns, MuInv, SendSide, monVars, sourceVars
<1>1. CASE Defers
  BY <1>1 DEF Defers, RunEnds, CloseSource, SourceClosed
<1>2. CASE Reader
  BY <1>2 DEF Reader, ReaderChecks, ReadInterrupted, ReaderSends
<1>3. CASE FrameRead \/ HangUp \/ ServerReads \/ ServerEnds
  <2>1. CASE ServerReads
    BY <2>1, WindowMoves DEF ServerReads
  <2>2. CASE FrameRead \/ HangUp \/ ServerEnds
    BY <2>2 DEF FrameRead, HangUp, ServerEnds
  <2> QED BY <1>3, <2>1, <2>2
<1>4. CASE \E s \in Streams : Recv(s) \/ ServerAnswers(s)
  BY <1>4 DEF Recv, RecvEmits, RecvEnds, ServerAnswers
<1>5. CASE UNCHANGED audioVars
  BY <1>5 DEF audioVars
<1> QED BY <1>1, <1>2, <1>3, <1>4, <1>5

\* Both invariants hold in every behaviour of a call's streams.
LEMMA AudioInvariant == Spec => [](ReaderInv /\ MuInv)
<1>1. Init => ReaderInv /\ MuInv
  BY FreshUp DEF Init, AudioInit, ReaderInv, MuInv
<1>2. ReaderInv /\ MuInv /\ [Next]_vars => (ReaderInv /\ MuInv)'
  <2> SUFFICES ASSUME ReaderInv, MuInv, [Next]_vars PROVE ReaderInv' /\ MuInv'
    OBVIOUS
  <2>1. [AudioNext]_audioVars
    BY DEF Next, vars, Audio
  <2> QED BY <2>1, ReaderKeeps, SpeakSends, ListenSends, OthersSend DEF AudioNext
<1> QED BY <1>1, <1>2, PTL DEF Spec

\* The caller's frames have one reader at any time: Listen runs outside every
\* Speak, and inside one there is the pump or the drain.
THEOREM OneReaderOnly == Spec => []OneReader
<1>1. ReaderInv => OneReader
  <2> SUFFICES ASSUME ReaderInv PROVE OneReader
    OBVIOUS
  <2> DEFINE R == {t \in {"listen", "pump", "drain"} :
                     \/ t = "listen" /\ run \in Listening
                     \/ t = "pump" /\ pump # "off"
                     \/ t = "drain" /\ drain}
  <2>1. PICK x \in {"listen", "pump", "drain"} : R \subseteq {x}
    BY DEF ReaderInv, SpeakRuns, Listening
  <2>2. IsFiniteSet({x}) /\ Cardinality({x}) = 1
    BY FS_Singleton
  <2>3. Cardinality(R) <= 1
    BY <2>1, <2>2, FS_Subset
  <2> QED BY <2>3 DEF OneReader
<1> QED BY <1>1, AudioInvariant, PTL

\* No CloseSend beside a Send, and no stream is left in the middle of one.
THEOREM SendsAreAlone == Spec => SendsAlone
<1>1. ReaderInv /\ MuInv /\ [Next]_vars =>
          [cur' # cur \/ up'.sendClosed # up.sendClosed => ~up.mu]_audioVars
  <2> SUFFICES ASSUME ReaderInv, MuInv, [Next]_vars PROVE SendSide
    BY DEF SendSide
  <2>1. [AudioNext]_audioVars
    BY DEF Next, vars, Audio
  <2> QED BY <2>1, SpeakSends, ListenSends, OthersSend DEF AudioNext
<1> QED BY <1>1, AudioInvariant, PTL DEF Spec, SendsAlone

\* ------------------------------------------------------------- the bot's reply

\* The variables' types; flushedTo never runs ahead of what was read.
TextType ==
    /\ text \in Seq(Bytes) /\ got \in 0 .. Len(text) /\ flushedTo \in 0 .. got
    /\ sent \in Seq([from : Nat, to : Nat])
    /\ reading \in {"read", "ok", "failed"}

\* A scan begins at a rune: with the reply, or behind a delimiter.
AtRune == flushedTo = 0 \/ Delim(flushedTo)

\* A sentence has a byte, and until the end it is behind flushedTo.
SentFits ==
    \A k \in DOMAIN sent :
        /\ 1 <= sent[k].from /\ sent[k].from <= sent[k].to
        /\ reading # "ok" => sent[k].to <= flushedTo

TextInv == TextType /\ AtRune /\ SentFits /\ SpokenIsText

\* A piece of the reply has its bytes.
LEMMA PieceOfText ==
    ASSUME text \in Seq(Bytes), NEW m \in 1 .. Len(text), NEW n \in m .. Len(text),
           NEW k \in 1 .. n - m + 1
    PROVE  SubSeq(text, m, n)[k] = text[m + k - 1]
OBVIOUS

\* An ellipsis is its three bytes.
LEMMA EllipsisBytes ==
    ASSUME text \in Seq(Bytes), NEW i \in DOMAIN text, i >= 3,
           SubSeq(text, i - 2, i) = Ellipsis
    PROVE  text[i - 2] = "e1" /\ text[i - 1] = "e2" /\ text[i] = "e3"
<1>1. PICK m \in 1 .. Len(text) : m = i - 2
  OBVIOUS
<1>2. i \in m .. Len(text) /\ i \in Int /\ i = m + 2
  BY <1>1
<1>3. \A k \in 1 .. i - m + 1 : Ellipsis[k] = text[m + k - 1]
  <2>1. SubSeq(text, m, i) = Ellipsis
    BY <1>1
  <2> QED BY <1>2, <2>1, PieceOfText
<1>4. Ellipsis[1] = text[m] /\ Ellipsis[2] = text[m + 1] /\ Ellipsis[3] = text[m + 2]
  BY <1>2, <1>3
<1>5. Ellipsis[1] = "e1" /\ Ellipsis[2] = "e2" /\ Ellipsis[3] = "e3"
  BY DEF Ellipsis
<1>6. m = i - 2 /\ m + 1 = i - 1 /\ m + 2 = i
  BY <1>1, <1>2
<1> QED BY <1>4, <1>5, <1>6

\* A delimiter ends with a byte that no other byte of a delimiter is.
LEMMA DelimByte ==
    ASSUME text \in Seq(Bytes), NEW i \in DOMAIN text, Delim(i)
    PROVE  text[i] \in {".", "nl", "e3"}
BY EllipsisBytes DEF Delim

\* The scans of a reply in chunks see every delimiter: what a chunk cuts in two
\* is not lost, as a scan never begins inside an ellipsis.
LEMMA ScanSeesAll ==
    ASSUME TextType, AtRune
    PROVE  Ends = {i \in flushedTo + 1 .. got : Delim(i)}
<1> SUFFICES ASSUME NEW i \in flushedTo + 1 .. got, Delim(i), text[i] = "e3"
             PROVE  i >= flushedTo + 3
  BY DEF Ends
<1>1. i \in DOMAIN text /\ i \in Nat /\ flushedTo \in Nat
  BY DEF TextType
<1>2. i >= 3 /\ text[i - 2] = "e1" /\ text[i - 1] = "e2"
  BY <1>1, EllipsisBytes DEF Delim, TextType
<1>3. SUFFICES ASSUME flushedTo \in {i - 1, i - 2} PROVE FALSE
  BY <1>1, <1>2
<1>4. flushedTo \in DOMAIN text /\ Delim(flushedTo)
  BY <1>1, <1>2, <1>3 DEF AtRune, TextType
<1>5. text[flushedTo] \in {".", "nl", "e3"}
  BY <1>4, DelimByte DEF TextType
<1> QED BY <1>2, <1>3, <1>5

\* A sentence is a pair of places.
LEMMA SentTypes ==
    ASSUME TextType
    PROVE  \A k \in DOMAIN sent : /\ k \in Nat
                                  /\ sent[k].from \in Nat /\ sent[k].to \in Nat
<1> SUFFICES ASSUME NEW k \in DOMAIN sent
             PROVE  k \in Nat /\ sent[k] \in [from : Nat, to : Nat]
  OBVIOUS
<1>1. sent \in Seq([from : Nat, to : Nat])
  BY DEF TextType
<1>2. k \in 1 .. Len(sent) /\ k \in Nat
  BY <1>1
<1> QED BY <1>1, <1>2, ElementOfSeq

\* What one more sentence does to those there are.
LEMMA OneMore ==
    ASSUME TextType, NEW a \in Nat, NEW b \in Nat,
           sent' = Append(sent, [from |-> a, to |-> b])
    PROVE  /\ sent' \in Seq([from : Nat, to : Nat])
           /\ DOMAIN sent' = DOMAIN sent \cup {Len(sent) + 1}
           /\ \A k \in DOMAIN sent : sent'[k] = sent[k] /\ k < Len(sent) + 1
           /\ sent'[Len(sent) + 1] = [from |-> a, to |-> b]
           /\ Said' = Said \cup (a .. b)
<1>1. PICK n \in Nat : n = Len(sent) + 1
  BY DEF TextType
<1>2. /\ sent' \in Seq([from : Nat, to : Nat])
      /\ DOMAIN sent' = DOMAIN sent \cup {n}
      /\ \A k \in DOMAIN sent : sent'[k] = sent[k] /\ k < n
      /\ sent'[n] = [from |-> a, to |-> b]
  BY <1>1 DEF TextType
<1>3. Sentence(n)' = a .. b
  BY <1>2 DEF Sentence
<1>4. \A k \in DOMAIN sent : Sentence(k)' = Sentence(k)
  BY <1>2 DEF Sentence
<1>5. Said' = Said \cup (a .. b)
  BY <1>2, <1>3, <1>4 DEF Said
<1> QED BY <1>1, <1>2, <1>5

\* Flush keeps the sentences before, and the ink of its bytes is in the new one.
\* The bytes have no gaps and lie behind flushedTo, without a delimiter inside.
LEMMA FlushKeeps ==
    ASSUME TextInv, reading = "read", NEW bytes \in SUBSET (DOMAIN text),
           Flush(bytes), text' = text,
           \A i \in bytes : flushedTo < i,
           \A i, j \in bytes : \A m \in i .. j : m \in bytes,
           \A i, j \in bytes : i < j => ~Delim(i)
    PROVE  /\ sent' \in Seq([from : Nat, to : Nat])
           /\ Said \cup Ink(bytes) \subseteq Said'
           /\ Said' \subseteq Said \cup bytes
           /\ \A k \in DOMAIN sent' :
                /\ sent'[k].to \in Nat
                /\ 1 <= sent'[k].from /\ sent'[k].from <= sent'[k].to
                /\ sent'[k].to <= flushedTo \/ sent'[k].to \in bytes
           /\ \A k \in DOMAIN sent' : \A i \in Sentence(k)' :
                i < sent'[k].to => ~Delim(i)'
           /\ \A j, k \in DOMAIN sent' : j < k =>
                \E i \in sent'[j].to .. sent'[k].from - 1 : Delim(i)'
<1>1. TextType /\ AtRune /\ SentFits /\ SpokenIsText /\ flushedTo \in Nat
  BY DEF TextInv, TextType
<1>2. DOMAIN text \subseteq Nat
  BY <1>1 DEF TextType
<1>3. \A i : Delim(i)' <=> Delim(i)
  BY DEF Delim
<1>4. CASE Ink(bytes) = {}
  <2>1. sent' = sent
    BY <1>4 DEF Flush
  <2>2. Said' = Said /\ \A k : Sentence(k)' = Sentence(k)
    BY <2>1 DEF Said, Sentence
  <2>3. \A k \in DOMAIN sent :
            /\ sent[k].to \in Nat
            /\ 1 <= sent[k].from /\ sent[k].from <= sent[k].to /\ sent[k].to <= flushedTo
    BY <1>1, SentTypes DEF SentFits
  <2> QED BY <1>1, <1>3, <1>4, <2>1, <2>2, <2>3 DEF SpokenIsText, TextType
<1>5. CASE Ink(bytes) # {}
  <2>1. PICK a, b \in Ink(bytes) :
            /\ \A i \in Ink(bytes) : a <= i /\ i <= b
            /\ sent' = Append(sent, [from |-> a, to |-> b])
    BY <1>5 DEF Flush
  <2>2. a \in bytes /\ b \in bytes /\ a \in Nat /\ b \in Nat /\ a <= b
    BY <1>2, <2>1 DEF Ink
  <2>3. a .. b \subseteq bytes
    BY <2>2
  <2>4. Ink(bytes) \subseteq a .. b
    <3>1. \A i \in Ink(bytes) : i \in Nat /\ a <= i /\ i <= b
      BY <1>2, <2>1 DEF Ink
    <3>2. ASSUME NEW i \in Ink(bytes) PROVE i \in a .. b
      BY <2>2, <3>1
    <3> QED BY <3>2
  <2>5. PICK n \in Nat : n = Len(sent) + 1
    BY <1>1 DEF TextType
  <2>6. /\ sent' \in Seq([from : Nat, to : Nat])
        /\ DOMAIN sent' = DOMAIN sent \cup {n}
        /\ \A k \in DOMAIN sent : sent'[k] = sent[k] /\ k < n
        /\ sent'[n] = [from |-> a, to |-> b]
        /\ Said' = Said \cup (a .. b)
    BY <1>1, <2>1, <2>2, <2>5, OneMore
  <2>7. sent'[n].from = a /\ sent'[n].to = b /\ flushedTo < a
    BY <2>2, <2>6
  <2>8. /\ Sentence(n)' = a .. b
        /\ \A k \in DOMAIN sent : Sentence(k)' = Sentence(k)
    BY <2>6, <2>7 DEF Sentence
  <2>9. \A k \in DOMAIN sent :
            /\ sent[k].from \in Nat /\ sent[k].to \in Nat /\ k \in Nat
            /\ 1 <= sent[k].from /\ sent[k].from <= sent[k].to
            /\ sent[k].to <= flushedTo
    BY <1>1, SentTypes DEF SentFits
  <2>10. \A k \in DOMAIN sent' :
            /\ sent'[k].to \in Nat
            /\ 1 <= sent'[k].from /\ sent'[k].from <= sent'[k].to
            /\ sent'[k].to <= flushedTo \/ sent'[k].to \in bytes
    BY <1>1, <2>2, <2>6, <2>7, <2>9
  <2>11. \A k \in DOMAIN sent' : \A i \in Sentence(k)' : i < sent'[k].to => ~Delim(i)'
    <3> SUFFICES ASSUME NEW k \in DOMAIN sent', NEW i \in Sentence(k)', i < sent'[k].to
                 PROVE  ~Delim(i)
      BY <1>3
    <3>1. CASE k = n
      <4>1. i \in a .. b /\ i < b
        BY <2>7, <2>8, <3>1
      <4> QED BY <2>2, <2>3, <4>1
    <3>2. CASE k \in DOMAIN sent
      BY <1>1, <2>6, <2>8, <3>2 DEF SpokenIsText
    <3> QED BY <2>6, <3>1, <3>2
  <2>12. ASSUME NEW j \in DOMAIN sent', NEW k \in DOMAIN sent', j < k
         PROVE  \E i \in sent'[j].to .. sent'[k].from - 1 : Delim(i)'
    <3>1. j \in DOMAIN sent
      BY <2>5, <2>6, <2>9, <2>12
    <3>2. CASE k \in DOMAIN sent
      BY <1>1, <1>3, <2>6, <2>12, <3>1, <3>2 DEF SpokenIsText
    <3>3. CASE k = n
      <4>1. Delim(flushedTo)
        BY <1>1, <2>9, <3>1 DEF AtRune
      <4>2. flushedTo \in sent'[j].to .. sent'[k].from - 1
        BY <1>1, <2>2, <2>6, <2>7, <2>9, <3>1, <3>3
      <4> QED BY <1>3, <4>1, <4>2
    <3> QED BY <2>6, <3>2, <3>3
  <2> QED BY <2>4, <2>3, <2>6, <2>10, <2>11, <2>12
<1> QED BY <1>4, <1>5

\* The next sentence ends at the first delimiter behind flushedTo.
LEMMA CutKeeps ==
    ASSUME TextInv, Cut
    PROVE  TextInv'
<1>1. TextType /\ AtRune /\ SentFits /\ SpokenIsText /\ reading = "read"
  BY DEF TextInv, Cut
<1>2. PICK e \in Ends : /\ \A i \in Ends : e <= i
                        /\ Flush(flushedTo + 1 .. e)
                        /\ flushedTo' = e
  BY DEF Cut
<1>3. /\ UNCHANGED <<text, got, reading, action>>
      /\ text \in Seq(Bytes) /\ got \in Nat /\ flushedTo \in Nat /\ got <= Len(text)
      /\ e \in flushedTo + 1 .. got /\ Delim(e)
  BY <1>1, <1>2 DEF Cut, Ends, TextType
<1> DEFINE bytes == flushedTo + 1 .. e
<1>4. /\ bytes \in SUBSET (DOMAIN text)
      /\ \A i \in bytes : flushedTo < i
      /\ \A i, j \in bytes : \A m \in i .. j : m \in bytes
  BY <1>3
<1>5. \A i, j \in bytes : i < j => ~Delim(i)
  BY <1>1, <1>2, <1>3, ScanSeesAll
<1>6. /\ sent' \in Seq([from : Nat, to : Nat])
      /\ Said \cup Ink(bytes) \subseteq Said'
      /\ Said' \subseteq Said \cup bytes
      /\ \A k \in DOMAIN sent' :
           /\ sent'[k].to \in Nat
           /\ 1 <= sent'[k].from /\ sent'[k].from <= sent'[k].to
           /\ sent'[k].to <= flushedTo \/ sent'[k].to \in bytes
      /\ \A k \in DOMAIN sent' : \A i \in Sentence(k)' : i < sent'[k].to => ~Delim(i)'
      /\ \A j, k \in DOMAIN sent' : j < k =>
           \E i \in sent'[j].to .. sent'[k].from - 1 : Delim(i)'
  <2> HIDE DEF bytes
  <2> QED BY <1>1, <1>2, <1>3, <1>4, <1>5, FlushKeeps DEF bytes
<1>7. TextType'
  BY <1>1, <1>2, <1>3, <1>6 DEF TextType
<1>8. AtRune'
  BY <1>2, <1>3 DEF AtRune, Delim
<1>9. SentFits'
  BY <1>1, <1>2, <1>3, <1>6 DEF SentFits
<1>10. Due = 1 .. flushedTo /\ Due' = 1 .. e
  BY <1>1, <1>2, <1>3 DEF Due
<1>11. Ink(Due)' \subseteq Said' /\ Said' \subseteq Due'
  <2>1. Ink(Due)' \subseteq Ink(Due) \cup Ink(bytes)
    <3>1. Due' = Due \cup bytes
      BY <1>3, <1>10
    <3>2. Ink(Due)' = {i \in Due' : text[i] \notin {" ", "nl"}}
      BY <1>3 DEF Ink
    <3> QED BY <3>1, <3>2 DEF Ink
  <2>2. Due \cup bytes \subseteq Due'
    BY <1>3, <1>10
  <2> QED BY <1>1, <1>6, <2>1, <2>2 DEF SpokenIsText
<1>12. SpokenIsText'
  BY <1>6, <1>11 DEF SpokenIsText
<1> QED BY <1>7, <1>8, <1>9, <1>12 DEF TextInv

\* The end of the reply leaves no delimiter unseen, so what is left is one sentence.
LEMMA FinalizeKeeps ==
    ASSUME TextInv, Finalize
    PROVE  TextInv'
<1>1. TextType /\ AtRune /\ SentFits /\ SpokenIsText /\ reading = "read"
  BY DEF TextInv, Finalize
<1>2. /\ UNCHANGED <<text, got, flushedTo>> /\ got = Len(text) /\ Ends = {}
      /\ reading' = "ok"
      /\ text \in Seq(Bytes) /\ got \in Nat /\ flushedTo \in Nat
  BY <1>1 DEF Finalize, TextType
<1> DEFINE bytes == {i \in Content : flushedTo < i}
<1>3. /\ bytes \in SUBSET (DOMAIN text)
      /\ \A i \in bytes : flushedTo < i
  BY DEF Content
<1>4. \A i, j \in bytes : \A m \in i .. j : m \in bytes
  <2> SUFFICES ASSUME NEW i \in bytes, NEW j \in bytes, NEW m \in i .. j
               PROVE  m \in Content /\ flushedTo < m
    OBVIOUS
  <2>1. i \in 1 .. Len(text) /\ j \in 1 .. Len(text) /\ j \in Content
    BY <1>2, <1>3
  <2>2. m \in DOMAIN text /\ flushedTo < m /\ m <= j
    BY <1>2, <1>3, <2>1
  <2>3. ASSUME NEW bar \in Bars, j < bar PROVE m < bar
    BY <1>2, <2>1, <2>2, <2>3 DEF Bars
  <2> QED BY <2>1, <2>2, <2>3 DEF Content
<1>5. \A i, j \in bytes : i < j => ~Delim(i)
  BY <1>1, <1>2, <1>3, ScanSeesAll
<1>6. /\ sent' \in Seq([from : Nat, to : Nat])
      /\ Said \cup Ink(bytes) \subseteq Said'
      /\ Said' \subseteq Said \cup bytes
      /\ \A k \in DOMAIN sent' :
           /\ sent'[k].to \in Nat
           /\ 1 <= sent'[k].from /\ sent'[k].from <= sent'[k].to
           /\ sent'[k].to <= flushedTo \/ sent'[k].to \in bytes
      /\ \A k \in DOMAIN sent' : \A i \in Sentence(k)' : i < sent'[k].to => ~Delim(i)'
      /\ \A j, k \in DOMAIN sent' : j < k =>
           \E i \in sent'[j].to .. sent'[k].from - 1 : Delim(i)'
  <2>1. Flush(bytes)
    BY DEF Finalize
  <2> HIDE DEF bytes
  <2> QED BY <1>1, <1>2, <1>3, <1>4, <1>5, <2>1, FlushKeeps
<1>7. TextType' /\ AtRune' /\ SentFits'
  BY <1>1, <1>2, <1>6 DEF TextType, AtRune, SentFits, Delim
<1>8. Due' = Due \cup bytes
  BY <1>1, <1>2 DEF Due, Content, Bars
<1>9. Ink(Due)' \subseteq Said' /\ Said' \subseteq Due'
  <2>1. Ink(Due)' = Ink(Due) \cup Ink(bytes)
    BY <1>2, <1>8 DEF Ink
  <2> QED BY <1>1, <1>6, <1>8, <2>1 DEF SpokenIsText
<1>10. SpokenIsText'
  BY <1>6, <1>9 DEF SpokenIsText
<1> QED BY <1>7, <1>10 DEF TextInv

\* Reading and failing say nothing.
LEMMA SilenceKeeps ==
    ASSUME TextInv,
           \/ \E n \in 1 .. Len(text) : Read(n)
           \/ ReadFails
           \/ UNCHANGED textVars
    PROVE  TextInv'
<1>1. UNCHANGED <<text, flushedTo, sent>> /\ (reading' = "ok" <=> reading = "ok")
  BY DEF Read, ReadFails, textVars
<1>3. TextType'
  BY <1>1 DEF TextInv, TextType, Read, ReadFails, textVars
<1>4. AtRune' /\ SentFits'
  BY <1>1 DEF TextInv, AtRune, SentFits, Delim, Read, ReadFails, textVars
<1>5. Due' = Due
  BY <1>1 DEF Due, Content, Bars, Read, ReadFails, textVars
<1>6. SpokenIsText'
  <2>1. Ink(Due)' = Ink(Due) /\ Said' = Said
    BY <1>1, <1>5 DEF Ink, Said, Sentence
  <2> QED BY <1>1, <1>5, <2>1 DEF TextInv, SpokenIsText, Sentence, Delim
<1> QED BY <1>3, <1>4, <1>6 DEF TextInv

\* However a reply of any length is cut into chunks, its sentences are the reply.
THEOREM SentencesAreText == Spec => []SpokenIsText
<1>1. Init => TextInv
  <2> SUFFICES ASSUME Init PROVE TextInv
    OBVIOUS
  <2>1. /\ text \in Seq(Bytes) /\ got = 0 /\ flushedTo = 0 /\ sent = <<>>
        /\ reading = "read"
    BY TextAssumption DEF Init, BotIdle
  <2>2. Said = {} /\ Due = {}
    BY <2>1 DEF Said, Due
  <2> QED BY <2>1, <2>2 DEF TextInv, TextType, AtRune, SentFits, SpokenIsText, Ink
<1>2. TextInv /\ [Next]_vars => TextInv'
  BY CutKeeps, FinalizeKeeps, SilenceKeeps DEF Next, vars, Audio, BotTextNext
<1>3. TextInv => SpokenIsText
  BY DEF TextInv
<1> QED BY <1>1, <1>2, <1>3, PTL DEF Spec
=============================================================================
