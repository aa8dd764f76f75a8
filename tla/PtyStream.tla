----------------------------- MODULE PtyStream -----------------------------
(***************************************************************************)
(* What a pane writes on its way to the coordinator: tmux's escaping of a  *)
(* %output line, the line's split in readLoop, DeescapeTmux                *)
(* (internal/tmux/tmux.go) and the incremental Sanitizer                   *)
(* (internal/ptymux/sanitize.go) SendPty passes every chunk through.       *)
(* Bytes are their codes.  The pane is one handleOutputNotification        *)
(* tracks; calls of SendPty are taken one after the other.                 *)
(***************************************************************************)
EXTENDS Integers, Sequences

CONSTANTS
  Bytes,                    \* the byte codes a pane writes
  MaxChunk,                 \* bound on the bytes of one %output line
  MaxBytes,                 \* bound on the bytes of the stream
  MaxCaptures               \* bound on initial screens sent (MapPane's goroutine)

Limits ==
  Bytes \subseteq 0 .. 255 /\ MaxChunk \in Nat /\ MaxBytes \in Nat /\ MaxCaptures \in Nat

ASSUME PtyAssumption == Limits

VARIABLES
  delivered,                \* all SendPty was given
  san,                      \* the session's Sanitizer
  out,                      \* all it returned
  captures,                 \* initial screens sent
  lost,                     \* a line was not forwarded as the pane wrote it
  spaced                    \* a line had a space in it

ptyVars == <<delivered, san, out, captures, lost, spaced>>

ESC == 27
BEL == 7
Space == 32
Semicolon == 59
Backslash == 92
Bracket == 93
Digits == 48 .. 57

Codes(bytes) == {bytes[i] : i \in 1 .. Len(bytes)}
-----------------------------------------------------------------------------
(***************************************************************************)
(* tmux and the read loop.                                                 *)
(***************************************************************************)
\* tmux: bytes below a space and the backslash are written as three octal digits.
EscapeByte(b) ==
  IF b < 32 \/ b = Backslash
  THEN <<Backslash, 48 + (b \div 64), 48 + ((b \div 8) % 8), 48 + (b % 8)>>
  ELSE <<b>>

EscapeFirst(bytes, n) ==
  LET esc[i \in 0 .. n] == IF i = 0 THEN <<>> ELSE esc[i - 1] \o EscapeByte(bytes[i])
  IN  esc[n]

Escape(bytes) == EscapeFirst(bytes, Len(bytes))

\* strings.SplitN(line, " ", 4): of "%output <pane> <data>" the third part is used,
\* which ends at the first space of the data.
ThirdPart(data) ==
  LET spaces == {i \in 1 .. Len(data) : data[i] = Space}
      first  == CHOOSE i \in spaces : \A j \in spaces : i <= j
  IN  IF spaces = {} THEN data ELSE SubSeq(data, 1, first - 1)

Octal(s, i) == \A j \in 1 .. 3 : s[i + j] \in 48 .. 55

OctalValue(s, i) == ((s[i + 1] - 48) * 64 + (s[i + 2] - 48) * 8 + (s[i + 3] - 48)) % 256

\* Mutant: an escape is not read at the end of the line.
FourLeft(left) == left > 4

\* i+3 < len(s), with left bytes from i on.
ThreeFollow(left) == left > 3

Decoded(bytes) == [ok |-> TRUE, bytes |-> bytes]
Failed == [ok |-> FALSE, bytes |-> <<>>]

\* What the loop appends first, and what it makes of the rest.
Before(c, rest) == IF rest.ok THEN Decoded(<<c>> \o rest.bytes) ELSE Failed

\* The last n bytes of s.
DeescapeLast(s, n) ==
  LET from[left \in 0 .. n] ==
        LET i == Len(s) - left + 1 IN
          IF left = 0 THEN Decoded(<<>>)
          ELSE IF s[i] # Backslash THEN Before(s[i], from[left - 1])
          ELSE IF left = 1 THEN Failed
          ELSE IF s[i + 1] = Backslash THEN Before(Backslash, from[left - 2])
          ELSE IF ThreeFollow(left) /\ Octal(s, i) THEN Before(OctalValue(s, i), from[left - 4])
          ELSE Failed
  IN  from[n]

DeescapeTmux(s) == DeescapeLast(s, Len(s))
-----------------------------------------------------------------------------
(***************************************************************************)
(* Sanitizer.  Step is one turn of the loop: the next state and the bytes  *)
(* appended to out.  What pending and param held stays there after the     *)
(* states that use them.                                                   *)
(***************************************************************************)
NewSanitizer == [state |-> "Normal", pending |-> <<>>, param |-> <<>>]

isTitleParam(p) == Len(p) = 1 /\ p[1] \in 48 .. 50

IsDigit(c) == c \in Digits

\* The sequence turned out to be no title: what was held back comes out.
FlushedByteOnly(s, c) == <<c>>
Flushed(s, c) == s.pending \o <<c>>

Result(s, bytes) == [san |-> s, out |-> bytes]

GoTo(s, st) == [s EXCEPT !.state = st]
Dropped(s, st) == [s EXCEPT !.state = st, !.pending = <<>>]

NormalStep(s, c) ==
  IF c = ESC THEN Result([s EXCEPT !.state = "Esc", !.pending = <<c>>], <<>>)
  ELSE Result(s, <<c>>)

EscStep(s, c) ==
  IF c = Bracket
  THEN Result([state |-> "OscNum", pending |-> s.pending \o <<c>>, param |-> <<>>], <<>>)
  ELSE IF c = ESC THEN Result(s, <<ESC>>)
  ELSE Result(GoTo(s, "Normal"), <<ESC, c>>)

\* stOscNum: the numeric parameter of an OSC is collected.
OscNumStep(s, c) ==
  IF IsDigit(c) /\ Len(s.param) < 8
  THEN Result([s EXCEPT !.param = s.param \o <<c>>, !.pending = s.pending \o <<c>>], <<>>)
  ELSE IF c = ESC THEN Result(GoTo(s, "OscNumEsc"), <<>>)
  ELSE IF c \in {Semicolon, BEL} /\ isTitleParam(s.param)
  THEN Result(Dropped(s, IF c = BEL THEN "Normal" ELSE "DropTitle"), <<>>)
  ELSE Result(GoTo(s, IF c = BEL THEN "Normal" ELSE "PassOsc"), Flushed(s, c))

OscNumEscStep(s, c) ==
  IF c = Backslash /\ isTitleParam(s.param) THEN Result(Dropped(s, "Normal"), <<>>)
  ELSE Result(GoTo(s, "Normal"), s.pending \o <<ESC, c>>)

DropTitleStep(s, c) ==
  Result(GoTo(s, IF c = BEL THEN "Normal" ELSE IF c = ESC THEN "DropEsc" ELSE "DropTitle"), <<>>)

DropEscStep(s, c) == Result(GoTo(s, IF c = Backslash THEN "Normal" ELSE "DropTitle"), <<>>)

PassOscStep(s, c) ==
  Result(GoTo(s, IF c = BEL THEN "Normal" ELSE IF c = ESC THEN "PassOscEsc" ELSE "PassOsc"), <<c>>)

PassOscEscStep(s, c) ==
  Result(GoTo(s, IF c = Backslash THEN "Normal" ELSE IF c = ESC THEN "PassOscEsc" ELSE "PassOsc"),
         <<c>>)

Step(s, c) ==
  IF s.state = "Normal" THEN NormalStep(s, c)
  ELSE IF s.state = "Esc" THEN EscStep(s, c)
  ELSE IF s.state = "OscNum" THEN OscNumStep(s, c)
  ELSE IF s.state = "OscNumEsc" THEN OscNumEscStep(s, c)
  ELSE IF s.state = "DropTitle" THEN DropTitleStep(s, c)
  ELSE IF s.state = "DropEsc" THEN DropEscStep(s, c)
  ELSE IF s.state = "PassOsc" THEN PassOscStep(s, c)
  ELSE PassOscEscStep(s, c)

\* The loop so far, r, and its next byte.
Advance(r, c) ==
  LET next == Step(r.san, c) IN Result(next.san, r.out \o next.out)

\* The loop over the first n bytes of b.
RunFirst(s, b, n) ==
  LET run[i \in 0 .. n] == IF i = 0 THEN Result(s, <<>>) ELSE Advance(run[i - 1], b[i])
  IN  run[n]

\* After the loop, nothing is pending in stNormal.
Settled(s) == IF s.state = "Normal" THEN [s EXCEPT !.pending = <<>>] ELSE s

Loop(s, b) ==
  LET r == RunFirst(s, b, Len(b)) IN Result(Settled(r.san), r.out)

SanitizeStateless(s, b) == IF ESC \notin Codes(b) THEN Result(s, b) ELSE Loop(s, b)

Sanitize(s, b) ==
  IF s.state = "Normal" /\ ESC \notin Codes(b) THEN Result(s, b) ELSE Loop(s, b)
-----------------------------------------------------------------------------
PtyInit ==
  /\ delivered = <<>> /\ san = NewSanitizer /\ out = <<>> /\ captures = 0
  /\ lost = FALSE /\ spaced = FALSE

SendPty(b) ==
  /\ delivered' = delivered \o b
  /\ san' = Sanitize(san, b).san
  /\ out' = out \o Sanitize(san, b).out

\* readLoop and handleOutputNotification: an undecodable or empty chunk is dropped.
Output(chunk) ==
  /\ Len(delivered) + Len(chunk) <= MaxBytes
  /\ LET raw == DeescapeTmux(ThirdPart(Escape(chunk)))
     IN  /\ IF raw.ok /\ raw.bytes # <<>> THEN SendPty(raw.bytes)
            ELSE UNCHANGED <<delivered, san, out>>
         /\ lost' = (lost \/ raw.bytes # chunk)
  /\ spaced' = (spaced \/ Space \in Codes(chunk))
  /\ UNCHANGED captures

\* MapPane's goroutine: clear the screen, then what capture-pane returned.
Capture ==
  /\ captures < MaxCaptures /\ Len(delivered) + 2 <= MaxBytes
  /\ captures' = captures + 1
  /\ SendPty(<<ESC, 91>>)
  /\ UNCHANGED <<lost, spaced>>

Chunks == UNION {[1 .. n -> Bytes] : n \in 0 .. MaxChunk}

PtyNext == Capture \/ \E chunk \in Chunks : Output(chunk)

PtySpec == PtyInit /\ [][PtyNext]_ptyVars
-----------------------------------------------------------------------------
Byte == 0 .. 255
States == {"Normal", "Esc", "OscNum", "OscNumEsc", "DropTitle", "DropEsc", "PassOsc", "PassOscEsc"}
Sanitizers == [state : States, pending : Seq(Byte), param : Seq(Digits)]

PtyTypeOK ==
  /\ delivered \in Seq(Byte) /\ out \in Seq(Byte) /\ san \in Sanitizers
  /\ captures \in 0 .. MaxCaptures /\ lost \in BOOLEAN /\ spaced \in BOOLEAN

\* "sequences split across %output chunk boundaries are handled correctly"
\* (sanitize.go): the chunks give what the whole stream in one piece gives.
ChunkIndependent == out = Loop(NewSanitizer, delivered).out

\* An OSC whose parameter is 0, 1 or 2 begins somewhere in s.
HasTitle(s) ==
  \E i \in 1 .. Len(s) - 3 :
    /\ s[i] = ESC /\ s[i + 1] = Bracket /\ s[i + 2] \in 48 .. 50
    /\ s[i + 3] \in {Semicolon, BEL, ESC}

\* What a Sanitizer holds back until it has seen more.
HeldBack(s) ==
  IF s.state \in {"Esc", "OscNum"} THEN s.pending
  ELSE IF s.state = "OscNumEsc" THEN s.pending \o <<ESC>>
  ELSE <<>>

\* "All other bytes ... pass through unchanged" (sanitize.go): without a title
\* sequence every byte given has come out, in order, or is still held.
OthersPass == ~HasTitle(delivered) => out \o HeldBack(san) = delivered

\* Lines without a space reach SendPty as the pane wrote them: DeescapeTmux
\* inverts the escaping up to the last byte of the line.
LineDecoded == lost => spaced

\* SPEC.md:432: %output comes "for every byte written to a pane. The daemon
\* de-escapes ... and forwards the raw bytes".
EveryByteForwarded == ~lost
=============================================================================
