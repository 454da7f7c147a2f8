------------------------------- MODULE Readers -------------------------------
(***************************************************************************)
(* logcollector's line readers: SyslogReader, MultilineUnitReader,         *)
(* MultilineRegexReader and JsonReader.  A reader is fed the bytes of a    *)
(* log file in chunks cut anywhere, keeps what is unfinished, and returns  *)
(* the messages that are complete; flush() returns what is left.           *)
(*                                                                         *)
(* Bytes are taken from small alphabets: "n" is a newline, "r" a carriage  *)
(* return, "h" and "x" are anything else, "a" and "b" are the two bytes of *)
(* one character.  That character is "ab" when it is decoded and "?" is    *)
(* U+FFFD.  For JSON the alphabet is what find_object_end tells apart.     *)
(***************************************************************************)
EXTENDS Naturals, Sequences, SequencesExt, FiniteSetsExt

CONSTANTS ReaderKind,   \* the readers to explore
          UnitLines,    \* MultilineUnitReader's lines
          Pattern,      \* the lines that MultilineRegexReader's pattern matches
          MaxText,      \* bound of the model: bytes of a text of lines
          MaxJson,      \* bound of the model: bytes of a JSON text
          MaxChunk      \* bound of the model: bytes in a chunk

ASSUME ReadersAssumption ==
  /\ ReaderKind \subseteq {"syslog", "unit", "regex", "json"}
  /\ UnitLines \in Nat \ {0} /\ MaxText \in Nat /\ MaxJson \in Nat
  /\ MaxChunk \in Nat

LineByte == {"n", "r", "h", "x", "a", "b"}
JsonByte == {"lbrace", "rbrace", "quote", "backslash", "x"}

VARIABLES
  kind,     \* the class of this reader
  fed,      \* history: the bytes it has been given
  half,     \* _buffer
  current,  \* _current: the lines of the unfinished message
  messages, \* history: what it has returned, a message as its lines
  flushed   \* flush() has been called

readerVars == <<kind, fed, half, current, messages, flushed>>

ReadersInit ==
  /\ kind \in ReaderKind
  /\ fed = << >> /\ half = << >> /\ current = << >> /\ messages = << >>
  /\ flushed = FALSE

-----------------------------------------------------------------------------
\* decode_chunk, with errors="replace": half a character becomes U+FFFD.
Decode(bytes) ==
  LET Whole(i) == i \in 1 .. Len(bytes) - 1 /\ bytes[i] = "a" /\ bytes[i + 1] = "b"
  IN FlattenSeq([i \in 1 .. Len(bytes) |->
       IF Whole(i) THEN <<"ab">>
       ELSE IF Whole(i - 1) THEN << >>
       ELSE IF bytes[i] \in {"a", "b"} THEN <<"?">>
       ELSE <<bytes[i]>>])

\* split_lines, for one character: a newline ends the line.
SplitAt(st, ch) ==
  IF ch = "n" THEN [lines |-> Append(st.lines, st.rest), rest |-> << >>]
  ELSE [st EXCEPT !.rest = Append(st.rest, ch)]

\* split_lines: the complete lines of a text, and the rest.
SplitLines(text) == FoldLeft(SplitAt, [lines |-> << >>, rest |-> << >>], text)

\* str.rstrip("\r").
Stripped(line) ==
  SubSeq(line, 1, Max({0} \cup {i \in 1 .. Len(line) : line[i] # "r"}))

Matches(line) == line \in Pattern

-----------------------------------------------------------------------------
(* Wrong variants: slips in the definitions below, which the properties      *)
(* reject.                                                                   *)

\* The half line is not joined to the next chunk.
JoinedNot(text) == text

\* The message that a matching line ends is returned with that line.
GroupRegexLate(st, line) ==
  IF Matches(line) /\ st.current # << >>
  THEN [out |-> Append(st.out, Append(st.current, line)), current |-> << >>]
  ELSE [out |-> st.out, current |-> Append(st.current, line)]

\* Braces inside strings count.
BracesBalance(text, i) ==
  LET Count(j, ch) == Cardinality({k \in i .. j : text[k] = ch})
  IN {j \in i .. Len(text) : text[j] = "rbrace" /\ Count(j, "lbrace") = Count(j, "rbrace")}

-----------------------------------------------------------------------------
(* What a reader does with a chunk *)

Joined(text) == half \o text

\* The loops of the three line readers, for one line.
GroupSyslog(st, line) == [out |-> Append(st.out, <<line>>), current |-> << >>]

GroupUnit(st, line) ==
  LET unit == Append(st.current, line)
  IN IF Len(unit) >= UnitLines THEN [out |-> Append(st.out, unit), current |-> << >>]
     ELSE [out |-> st.out, current |-> unit]

GroupRegex(st, line) ==
  IF Matches(line) /\ st.current # << >>
  THEN [out |-> Append(st.out, st.current), current |-> <<line>>]
  ELSE [out |-> st.out, current |-> Append(st.current, line)]

Group(st, line) ==
  CASE kind = "syslog" -> GroupSyslog(st, line)
    [] kind = "unit"   -> GroupUnit(st, line)
    [] kind = "regex"  -> GroupRegex(st, line)

\* find_object_end, for one character.
Scan(s, ch) ==
  IF s.string
  THEN IF s.escape THEN [s EXCEPT !.escape = FALSE]
       ELSE IF ch = "backslash" THEN [s EXCEPT !.escape = TRUE]
       ELSE IF ch = "quote" THEN [s EXCEPT !.string = FALSE] ELSE s
  ELSE IF ch = "quote" THEN [s EXCEPT !.string = TRUE]
  ELSE IF ch = "lbrace" THEN [s EXCEPT !.depth = s.depth + 1]
  ELSE IF ch = "rbrace" THEN [s EXCEPT !.depth = s.depth - 1]
  ELSE s

Outside == [depth |-> 0, string |-> FALSE, escape |-> FALSE]

\* The ends of the object that begins at i; the first one counts.
ObjectEnds(text, i) ==
  {j \in i .. Len(text) :
     text[j] = "rbrace" /\ FoldLeft(Scan, Outside, SubSeq(text, i, j)).depth = 0}

\* _extract_objects, one object at a time: st.rest is text[i:].
ExtractOne(st) ==
  LET starts == {i \in 1 .. Len(st.rest) : st.rest[i] = "lbrace"}
      i == Min(starts)
      ends == ObjectEnds(st.rest, i)
  IN IF starts = {} THEN [st EXCEPT !.rest = << >>]
     ELSE IF ends = {} THEN [st EXCEPT !.rest = SubSeq(st.rest, i, Len(st.rest))]
     ELSE [out  |-> Append(st.out, SubSeq(st.rest, i, Min(ends))),
           rest |-> SubSeq(st.rest, Min(ends) + 1, Len(st.rest))]

\* Each object takes two characters at least.
ExtractObjects(text) ==
  FoldLeft(LAMBDA st, k : ExtractOne(st), [out |-> << >>, rest |-> text],
           [k \in 1 .. Len(text) |-> k])

FeedLines(bytes) ==
  LET split == SplitLines(Joined(Decode(bytes)))
      done == FoldLeft(Group, [out |-> << >>, current |-> current],
                       [k \in 1 .. Len(split.lines) |-> Stripped(split.lines[k])])
  IN /\ messages' = messages \o done.out /\ current' = done.current
     /\ half' = split.rest

FeedJson(bytes) ==
  LET done == ExtractObjects(Joined(bytes))
  IN /\ messages' = messages \o [k \in 1 .. Len(done.out) |-> <<done.out[k]>>]
     /\ half' = done.rest /\ UNCHANGED current

Feed(bytes) ==
  /\ ~flushed
  /\ Len(fed) + Len(bytes) <= IF kind = "json" THEN MaxJson ELSE MaxText
  /\ fed' = fed \o bytes
  /\ IF kind = "json" THEN FeedJson(bytes) ELSE FeedLines(bytes)
  /\ UNCHANGED <<kind, flushed>>

\* The lines of an unfinished message, and the half line as a message of its own.
FlushLines ==
  /\ kind # "json" /\ ~flushed /\ flushed' = TRUE
  /\ messages' = messages
       \o (IF current = << >> THEN << >> ELSE <<current>>)
       \o (IF half = << >> THEN << >> ELSE <<<<Stripped(half)>>>>)
  /\ current' = << >> /\ half' = << >>
  /\ UNCHANGED <<kind, fed>>

\* What is left begins with a brace that nothing closes: it is not valid JSON.
FlushJson ==
  /\ kind = "json" /\ ~flushed /\ flushed' = TRUE
  /\ half' = << >>
  /\ UNCHANGED <<kind, fed, current, messages>>

Chunk == UNION {[1 .. n -> LineByte \cup JsonByte] : n \in 1 .. MaxChunk}

ReadersNext ==
  \/ \E bytes \in Chunk :
       /\ Range(bytes) \subseteq IF kind = "json" THEN JsonByte ELSE LineByte
       /\ Feed(bytes)
  \/ FlushLines \/ FlushJson

ReadersSpec == ReadersInit /\ [][ReadersNext]_readerVars

-----------------------------------------------------------------------------
(* Properties *)

\* A text in which a two-byte character counts as two replacements.
Blurred(text) ==
  FlattenSeq([i \in 1 .. Len(text) |->
    IF text[i] = "ab" THEN <<"?", "?">>
    ELSE IF text[i] \in {"a", "b"} THEN <<"?">> ELSE <<text[i]>>])

BlurredLines(lines) == [k \in 1 .. Len(lines) |-> Blurred(lines[k])]

\* However the bytes of a log are cut into chunks (read_syslog.py:15,
\* read_multiline_unit.py:18, read_multiline_regex.py:19), the messages, the
\* unfinished one and the half line are the lines of the log, each once and in
\* order; a cut inside a character spoils that character and nothing else.
LinesSurviveCuts ==
  kind # "json" =>
    LET whole == SplitLines(Blurred(fed))
        lines == [k \in 1 .. Len(whole.lines) |-> Stripped(whole.lines[k])]
    IN IF flushed
       THEN BlurredLines(FlattenSeq(messages))
              = lines \o (IF whole.rest = << >> THEN << >> ELSE <<Stripped(whole.rest)>>)
       ELSE /\ BlurredLines(FlattenSeq(messages) \o current) = lines
            /\ Blurred(half) = whole.rest

\* A message is the unit it should be wherever the cuts are: UnitLines lines
\* (read_multiline_unit.py:33), or a matching line, or the first of the log, and
\* lines that do not match (read_multiline_regex.py:34).
MessagesAreUnits ==
  ~flushed =>
    \A m \in Range(messages) :
      /\ kind = "unit" => Len(m) = UnitLines
      /\ kind = "regex" => m # << >> /\ \A k \in 2 .. Len(m) : ~Matches(m[k])
      /\ kind = "regex" /\ m # messages[1] => Matches(m[1])

\* One pass over the whole text, for comparison: the objects that are complete,
\* and the one that is open.
OnePass(st, ch) ==
  IF st.scan.depth = 0 /\ ch # "lbrace" THEN st
  ELSE LET s == Scan(st.scan, ch)
       IN IF s.depth = 0 THEN [out |-> Append(st.out, <<Append(st.open, ch)>>),
                               open |-> << >>, scan |-> Outside]
          ELSE [st EXCEPT !.open = Append(st.open, ch), !.scan = s]

\* JsonReader searches its buffer from the first brace again with every chunk
\* (read_json.py:46, find_object_end): it returns the objects, and keeps the open
\* one, that a single pass over the whole file finds.
ObjectsSurviveCuts ==
  kind = "json" /\ ~flushed =>
    LET st == FoldLeft(OnePass, [out |-> << >>, open |-> << >>, scan |-> Outside], fed)
    IN messages = st.out /\ half = st.open

=============================================================================
