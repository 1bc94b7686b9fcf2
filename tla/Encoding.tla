------------------------------ MODULE Encoding ------------------------------
(***************************************************************************)
(* The functions of Syndicate that rewrite text before somebody reads it:  *)
(* make_envelope and format_sse (server/events.py: redaction, the payload  *)
(* cap, the SSE frame), _truncate_diagnosis (syndicate/nodes.py) and       *)
(* str_replace behind edit_file (syndicate/runtime).  One action per       *)
(* function, applied to every text up to a bound; the properties compare   *)
(* its result with a definition that does not follow the code.             *)
(*                                                                         *)
(* A text is a sequence of characters, one for every class of characters   *)
(* the code treats differently:                                            *)
(*   "k" the head of an API key, "t" and "e" a word like token and the     *)
(*       equals sign after it, "s" any character a secret may consist of   *)
(*   "q" a quote, "b" a backslash, "l" a line feed, "c" a carriage return  *)
(*   "w" a character outside ASCII, "a" and "x" any other character        *)
(*   "R" the text [REDACTED], "?" the replacement character U+FFFD.        *)
(***************************************************************************)
EXTENDS Integers, SequencesExt

CONSTANTS
  MinSecret,         \* characters after its head that make a secret
  MaxPayloadBytes,   \* _MAX_PAYLOAD_BYTES
  PreviewSlack,      \* the 200 bytes the preview leaves for its marker
  MarkerBytes,       \* bytes of {"truncated": ..., "preview": } around the preview
  MaxDiagnosisLines, \* _DIAGNOSIS_MAX_LINES
  MaxDiagnosisBytes, \* _DIAGNOSIS_MAX_BYTES
  PayloadLen, OutputLen, ContentLen, NeedleLen   \* bounds of the model: lengths of inputs

ASSUME EncodingAssumption ==
  /\ MinSecret \in Nat \ {0}
  /\ MarkerBytes \in Nat /\ MarkerBytes + 2 <= PreviewSlack
  /\ PreviewSlack \in Nat /\ MaxPayloadBytes \in Nat /\ PreviewSlack < MaxPayloadBytes
  /\ MaxDiagnosisLines \in Nat \ {0} /\ MaxDiagnosisBytes \in Nat \ {0}

VARIABLES
  call,   \* the call to be made: the function's name and its arguments
  out     \* its result, NoResult before it returns

codecVars == <<call, out>>
NoResult == [result |-> "none"]

PayloadTexts == BoundedSeq({"k", "s", "t", "e", "q", "l", "w"}, PayloadLen)
CommandOutputs == BoundedSeq({"a", "w", "l", "c"}, OutputLen)
Contents == BoundedSeq({"a", "x"}, ContentLen)
Needles == BoundedSeq({"a", "x"}, NeedleLen)

CodecInit ==
  /\ call \in      [op : {"make_envelope"}, text : PayloadTexts]
              \cup [op : {"truncate_diagnosis"}, text : CommandOutputs]
              \cup [op : {"edit_file"}, found : BOOLEAN, text : Contents,
                    old : Needles, new : {<<>>, <<"a">>, <<"a", "x">>}]
  /\ out = NoResult

-----------------------------------------------------------------------------
(* server/events.py *)

\* Two patterns stand for _SECRET_PATTERNS: one whose head may itself be part
\* of a secret's body, and one whose head may not.
SecretPatterns == << <<"k">>, <<"t", "e">> >>
SecretBody == {"k", "s", "t"}

\* Characters of a secret's body from position i on.
BodyRun(text, i) ==
  LET ends == {j \in i .. Len(text) : text[j] \notin SecretBody}
  IN  (IF ends = {} THEN Len(text) + 1 ELSE CHOOSE j \in ends : \A h \in ends : j <= h) - i

\* Length of the secret with this head that starts at i, 0 if none does.
MatchAt(head, text, i) ==
  LET body == i + Len(head)
  IN  IF /\ body <= Len(text) + 1
         /\ SubSeq(text, i, body - 1) = head
         /\ BodyRun(text, body) >= MinSecret
      THEN Len(head) + BodyRun(text, body) ELSE 0

\* pattern.sub(_REDACTED, text): leftmost matches, each as long as possible.
Redacted(head, text) ==
  LET from[i \in 1 .. Len(text) + 1] ==
        IF i > Len(text) THEN <<>>
        ELSE IF MatchAt(head, text, i) > 0 THEN <<"R">> \o from[i + MatchAt(head, text, i)]
        ELSE <<text[i]>> \o from[i + 1]
  IN  from[1]

redact_text(text) ==
  LET after[p \in 0 .. Len(SecretPatterns)] ==
        IF p = 0 THEN text ELSE Redacted(SecretPatterns[p], after[p - 1])
  IN  after[Len(SecretPatterns)]

\* json.dumps of a string.
Escaped(c) == CASE c \in {"q", "b"} -> <<"b", c>>
                [] c = "l" -> <<"b", "n">>
                [] c = "w" -> <<"b", "u", "0", "0", "0", "0">>
                [] OTHER -> <<c>>
Dumped(text) == <<"q">> \o FlattenSeq([i \in DOMAIN text |-> Escaped(text[i])]) \o <<"q">>

\* json.dumps of the payload {"x": text}.
Encoded(text) == <<"x">> \o Dumped(text)

cap_payload_Bug(text) ==  \* keeps all of an over-long payload in the preview
  IF Len(Encoded(text)) <= MaxPayloadBytes
  THEN [truncated |-> FALSE, text |-> text]
  ELSE [truncated |-> TRUE, text |-> Encoded(text)]

\* The preview is a cut of the encoding, and is encoded once more on its way out.
cap_payload(text) ==
  IF Len(Encoded(text)) <= MaxPayloadBytes
  THEN [truncated |-> FALSE, text |-> text]
  ELSE [truncated |-> TRUE, text |-> SubSeq(Encoded(text), 1, MaxPayloadBytes - PreviewSlack)]

make_envelope_Bug(text) ==  \* cuts before it redacts
  LET capped == cap_payload(text)
  IN  [capped EXCEPT !.text = redact_text(@)]

make_envelope(text) == cap_payload(redact_text(text))

\* A frame ends with the first empty line.
format_sse(envelope) ==
  LET marker == [i \in 1 .. (IF envelope.truncated THEN MarkerBytes ELSE 1) |-> "x"]
  IN  marker \o Dumped(envelope.text) \o <<"l", "l">>

MakeEnvelope ==
  /\ call.op = "make_envelope" /\ out = NoResult
  /\ LET envelope == make_envelope(call.text)
     IN  out' = [result |-> "envelope", envelope |-> envelope, frame |-> format_sse(envelope)]
  /\ UNCHANGED call

-----------------------------------------------------------------------------
(* _truncate_diagnosis *)

\* str.splitlines: a line feed, a carriage return or the pair of them ends a
\* line, and the end of the text does not start another one.
splitlines(text) ==
  LET Step(acc, c) ==
        CASE c = "l" /\ acc.last = "c" -> [acc EXCEPT !.last = c]
          [] c \in {"l", "c"} /\ ~(c = "l" /\ acc.last = "c") ->
               [lines |-> Append(acc.lines, acc.line), line |-> <<>>, last |-> c]
          [] OTHER -> [acc EXCEPT !.line = Append(@, c), !.last = c]
      after[i \in 0 .. Len(text)] ==
        IF i = 0 THEN [lines |-> <<>>, line |-> <<>>, last |-> "a"]
        ELSE Step(after[i - 1], text[i])
      end == after[Len(text)]
  IN  IF end.line = <<>> THEN end.lines ELSE Append(end.lines, end.line)

\* '\n'.join
Joined(lines) ==
  FlattenSeq([i \in DOMAIN lines |-> IF i = 1 THEN lines[i] ELSE <<"l">> \o lines[i]])

\* s[-n:]
LastOf(s, n) == SubSeq(s, IF Len(s) > n THEN Len(s) - n + 1 ELSE 1, Len(s))

\* str.encode: "w" is the widest character UTF-8 has, a first byte and three more.
Encode(text) ==
  FlattenSeq([i \in DOMAIN text |->
    IF text[i] = "w" THEN <<"w", "more", "more", "more">> ELSE <<text[i]>>])

\* bytes.decode(errors='replace') of the end of an encoding: continuation bytes
\* whose first byte is missing are replaced one by one.
Decode(bytes) ==
  LET whole(i) == \E j \in 1 .. i : bytes[j] # "more"
      chars == [i \in DOMAIN bytes |->
        IF bytes[i] # "more" THEN <<bytes[i]>> ELSE IF whole(i) THEN <<>> ELSE <<"?">>]
  IN  FlattenSeq(chars)

truncate_diagnosis_Bug(output) ==  \* keeps the beginning
  LET truncated == Joined(LastOf(splitlines(output), MaxDiagnosisLines))
      encoded == Encode(truncated)
  IN  IF Len(encoded) > MaxDiagnosisBytes
      THEN Decode(SubSeq(encoded, 1, MaxDiagnosisBytes)) ELSE truncated

truncate_diagnosis(output) ==
  LET truncated == Joined(LastOf(splitlines(output), MaxDiagnosisLines))
      encoded == Encode(truncated)
  IN  IF Len(encoded) > MaxDiagnosisBytes
      THEN Decode(LastOf(encoded, MaxDiagnosisBytes)) ELSE truncated

TruncateDiagnosis ==
  /\ call.op = "truncate_diagnosis" /\ out = NoResult
  /\ out' = [result |-> "diagnosis", text |-> truncate_diagnosis(call.text)]
  /\ UNCHANGED call

-----------------------------------------------------------------------------
(* str_replace and edit_file *)

OccursAt(old, text, i) ==
  i + Len(old) <= Len(text) + 1 /\ SubSeq(text, i, i + Len(old) - 1) = old

\* str.count: occurrences from the left that do not overlap; the empty string
\* occurs once at every position and at the end.
Count(text, old) ==
  LET from[i \in 1 .. Len(text) + 2] ==
        IF i > Len(text) + 1 THEN 0
        ELSE IF ~OccursAt(old, text, i) THEN from[i + 1]
        ELSE 1 + from[i + (IF old = <<>> THEN 1 ELSE Len(old))]
  IN  from[1]

\* str.replace(old, new, 1)
ReplacedOnce(text, old, new) ==
  LET i == CHOOSE i \in 1 .. Len(text) + 1 :
             OccursAt(old, text, i) /\ \A j \in 1 .. i - 1 : ~OccursAt(old, text, j)
  IN  SubSeq(text, 1, i - 1) \o new \o SubSeq(text, i + Len(old), Len(text))

str_replace_Bug(text, old, new) ==  \* takes the first of several matches
  IF Count(text, old) = 0 THEN [result |-> "error", text |-> text]
  ELSE [result |-> "edited", text |-> ReplacedOnce(text, old, new)]

str_replace(text, old, new) ==
  IF Count(text, old) # 1 THEN [result |-> "error", text |-> text]
  ELSE [result |-> "edited", text |-> ReplacedOnce(text, old, new)]

\* read_file, str_replace and write_file; both errors leave the file as it was.
EditFile ==
  /\ call.op = "edit_file" /\ out = NoResult
  /\ out' = IF call.found THEN str_replace(call.text, call.old, call.new)
            ELSE [result |-> "error", text |-> call.text]
  /\ UNCHANGED call

CodecNext == MakeEnvelope \/ TruncateDiagnosis \/ EditFile
CodecSpec == CodecInit /\ [][CodecNext]_codecVars

-----------------------------------------------------------------------------
\* One event is one bounded SSE frame: although the preview is JSON inside JSON
\* and may exceed MaxPayloadBytes, a frame stays below twice that, whatever the
\* payload holds; and no payload can end the frame before its end.
FrameBounded ==
  out.result = "envelope" =>
    /\ Len(out.frame) <= 2 * MaxPayloadBytes
    /\ \A i \in 1 .. Len(out.frame) - 2 : out.frame[i] # "l"

\* No secret is echoed (the comment at _SECRET_PATTERNS): no pattern matches what
\* goes out, and a key-like word in it is (the beginning of) one of the payload
\* that was too short to be a secret -- not a secret that lost its end to the cap.
NoSecretEchoed ==
  out.result = "envelope" =>
    LET sent == out.envelope.text
    IN  /\ \A p \in DOMAIN SecretPatterns, i \in DOMAIN sent :
             MatchAt(SecretPatterns[p], sent, i) = 0
        /\ \A i \in DOMAIN sent : sent[i] = "k" =>
             \E j \in DOMAIN call.text :
               /\ call.text[j] = "k"
               /\ BodyRun(call.text, j + 1) < MinSecret
               /\ BodyRun(sent, i + 1) <= BodyRun(call.text, j + 1)

\* The agent is shown the end of the output and as much of it as the limits
\* allow: after at most three replacement characters (six bytes over the limit)
\* comes the longest suffix of the output's lines that fits in both limits.
DiagnosisIsLongestTail ==
  out.result = "diagnosis" =>
    LET lines == Joined(splitlines(call.text))
        lost == {i \in DOMAIN out.text : out.text[i] = "?"}
        tail == SubSeq(out.text, Cardinality(lost) + 1, Len(out.text))
        Fits(s) == /\ Len(Encode(s)) <= MaxDiagnosisBytes
                   /\ Cardinality({i \in DOMAIN s : s[i] = "l"}) < MaxDiagnosisLines
    IN  /\ lost = 1 .. Cardinality(lost) /\ Cardinality(lost) <= 3
        /\ IsSuffix(tail, lines) /\ Fits(tail)
        /\ \A s \in Suffixes(lines) : Fits(s) => Len(s) <= Len(tail)

\* An edit is unambiguous: it is made if and only if the file exists, the old
\* text occurs and no two of its occurrences are disjoint; then one occurrence
\* and nothing else is replaced.  Overlapping occurrences are not refused.
EditIsExact ==
  out.result \in {"edited", "error"} =>
    LET at == {i \in 1 .. Len(call.text) + 1 : OccursAt(call.old, call.text, i)}
        disjoint == \E i, j \in at : i < j /\ i + Len(call.old) <= j
    IN  /\ (out.result = "edited") <=> (call.found /\ at # {} /\ ~disjoint)
        /\ out.result = "error" => out.text = call.text
        /\ out.result = "edited" =>
             \E i \in at : out.text = SubSeq(call.text, 1, i - 1) \o call.new
                                      \o SubSeq(call.text, i + Len(call.old), Len(call.text))
=============================================================================
