----------------------------- MODULE JsonRecovery -----------------------------
(* Recovering the JSON document of a model reply (adapters/llm/json-recovery.ts): *)
(* unwrap the fence or take the first balanced object, then repair the strings    *)
(* in one pass. Characters are classes: "esc" is a letter JSON allows after a     *)
(* backslash, "char" one it does not, "comma" stands for the separators.          *)
EXTENDS Integers, Sequences, FiniteSets, SequencesExt

CONSTANTS
  Texts,       \* the texts a string of the document is meant to hold
  Wrappings    \* how the document stands in the reply

Characters == {"open", "close", "comma", "quote", "slash", "esc", "char", "newline", "fence"}
Cuts == {"cut", "opened_cut"}

\* A text with a fence in it would end the block around it.
ASSUME TextsAssumption ==
  /\ Texts \subseteq Seq(Characters \ {"fence"})
  /\ Wrappings \subseteq {"bare", "fenced", "opened", "prose"} \cup Cuts

VARIABLES
  meant,      \* [text, sent, wrapping]: what the model meant and how it wrote it
  phase,      \* "reply", "repair", "done"
  body,       \* the text under repair
  at,         \* the position of the repair in it
  inString,
  repaired    \* what the repair has written

jsonVars == <<meant, phase, body, at, inString, repaired>>

Structural == {"comma", "close"}
Blank == {"newline"}
Document(content) == <<"open", "quote">> \o content \o <<"quote", "newline", "close">>

\* One character as a model may write it: bare, escaped, or with a backslash JSON does not know.
Spellings(c) ==
  CASE c = "quote" -> {<<"quote">>, <<"slash", "quote">>}
    [] c = "newline" -> {<<"newline">>, <<"slash", "esc">>}
    [] c = "slash" -> {<<"slash", "slash">>}
    [] c = "char" -> {<<"char">>, <<"slash", "char">>}
    [] OTHER -> {<<c>>}

Written(text) == {FlattenSeq(spelled) : spelled \in {f \in [1..Len(text) -> UNION {Spellings(text[i]) : i \in 1..Len(text)}] :
                                                       \A i \in 1..Len(text) : f[i] \in Spellings(text[i])}}

\* The document up to the token limit. The trim at the head of the recovery turns a
\* cut behind blanks into the cut before them.
Cut(content) == <<"open", "quote">> \o SubSeq(content, 1, Len(content) - 1)

Reply(content, wrapping) ==
  CASE wrapping = "bare" -> Document(content)
    [] wrapping = "fenced" -> <<"fence">> \o Document(content) \o <<"fence", "char">>
    [] wrapping = "opened" -> <<"fence">> \o Document(content)
    [] wrapping = "prose" -> <<"char">> \o Document(content) \o <<"char">>
    [] wrapping = "cut" -> Cut(content)
    [] wrapping = "opened_cut" -> <<"fence">> \o Cut(content)

JsonInit == /\ \E t \in Texts, w \in Wrappings : \E s \in Written(t) : meant = [text |-> t, sent |-> s, wrapping |-> w]
            /\ phase = "reply" /\ body = <<>> /\ at = 1 /\ inString = FALSE /\ repaired = <<>>

ScanStep(s, c, i) ==
  IF s.end > 0 THEN s
  ELSE IF s.quoted THEN [s EXCEPT !.escaped = ~s.escaped /\ c = "slash", !.quoted = s.escaped \/ c # "quote"]
  ELSE IF c = "quote" THEN [s EXCEPT !.quoted = TRUE]
  ELSE IF c = "open" THEN [s EXCEPT !.depth = @ + 1]
  ELSE IF c = "close" THEN [s EXCEPT !.depth = @ - 1, !.end = IF s.depth = 1 THEN i ELSE 0]
  ELSE s

\* The position of the brace that closes the one at the head of `text`; 0: none.
Scanned(text) ==
  LET scan[i \in 0..Len(text)] ==
        IF i = 0 THEN [depth |-> 0, quoted |-> FALSE, escaped |-> FALSE, end |-> 0] ELSE ScanStep(scan[i - 1], text[i], i)
  IN scan[Len(text)].end

\* The search of a reader who forgets that braces also stand in strings.
FirstClosingBrace(text) ==
  LET start == SelectInSeq(text, LAMBDA c : c = "open")
      end == SelectInSeq(text, LAMBDA c : c = "close")
  IN IF start = 0 \/ end < start THEN text ELSE SubSeq(text, start, end)

FirstBalancedObject(text) ==
  LET start == SelectInSeq(text, LAMBDA c : c = "open")
      rest == SubSeq(text, start, Len(text))
  IN IF start = 0 \/ Scanned(rest) = 0 THEN text ELSE SubSeq(rest, 1, Scanned(rest))

Fences(text) == {i \in 1..Len(text) : text[i] = "fence"}

Unwrap ==
  /\ phase = "reply"
  /\ LET reply == Reply(meant.sent, meant.wrapping)
         fences == Fences(reply)
         opened == IF fences # {} /\ reply[1] = "fence" THEN Tail(reply) ELSE reply
     IN body' = IF \E i, j \in fences : i < j
                  THEN LET i == CHOOSE i \in fences : \A j \in fences : i <= j
                           j == CHOOSE j \in fences \ {i} : \A k \in fences \ {i} : j <= k
                       IN SubSeq(reply, i + 1, j - 1)
                  ELSE FirstBalancedObject(opened)
  /\ phase' = "repair"
  /\ UNCHANGED <<meant, at, inString, repaired>>

Here == body[at]
More == phase = "repair" /\ at <= Len(body)

Emit(piece, taken) ==
  /\ repaired' = repaired \o piece /\ at' = at + taken
  /\ UNCHANGED <<meant, phase, body>>

CopyOutside == /\ More /\ ~inString /\ inString' = (Here = "quote") /\ Emit(<<Here>>, 1)

\* The pair taken whole, whatever is left of the text.
EscapePair ==
  /\ More /\ inString /\ Here = "slash" /\ UNCHANGED inString
  /\ Emit(IF at < Len(body) /\ body[at + 1] \in {"quote", "slash", "esc"} THEN <<Here, body[at + 1]>> ELSE <<>>, 2)

Escape ==
  /\ More /\ inString /\ Here = "slash" /\ UNCHANGED inString
  /\ IF at = Len(body) THEN Emit(<<"slash", "slash">>, 1)
     ELSE IF body[at + 1] \in {"quote", "slash", "esc"} THEN Emit(<<Here, body[at + 1]>>, 2)
     ELSE Emit(<<body[at + 1]>>, 2)

\* The test without the run over blanks.
TerminatesHere == at = Len(body) \/ body[at + 1] \in Structural

\* The first character after the quote that is not a blank decides.
Terminates ==
  LET rest == SubSeq(body, at + 1, Len(body))
      next == SelectInSeq(rest, LAMBDA c : c \notin Blank)
  IN next = 0 \/ rest[next] \in Structural

Quote == /\ More /\ inString /\ Here = "quote"
         /\ inString' = ~Terminates
         /\ Emit(IF Terminates THEN <<"quote">> ELSE <<"slash", "quote">>, 1)

EscapeControl == /\ More /\ inString /\ Here \in Blank /\ UNCHANGED inString /\ Emit(<<"slash", "esc">>, 1)

CopyInside == /\ More /\ inString /\ Here \notin {"slash", "quote"} \cup Blank /\ UNCHANGED inString /\ Emit(<<Here>>, 1)

\* A repair that also closes what the reply left open.
FinishClosing == /\ phase = "repair" /\ at > Len(body) /\ phase' = "done"
                 /\ repaired' = IF inString THEN repaired \o <<"quote", "newline", "close">> ELSE repaired
                 /\ UNCHANGED <<meant, body, at, inString>>

Finish == /\ phase = "repair" /\ at > Len(body) /\ phase' = "done"
          /\ UNCHANGED <<meant, body, at, inString, repaired>>

JsonNext == Unwrap \/ CopyOutside \/ Escape \/ Quote \/ EscapeControl \/ CopyInside \/ Finish
JsonSpec == JsonInit /\ [][JsonNext]_jsonVars

-----------------------------------------------------------------------------
(* What a strict JSON reader makes of the result. *)

\* Where the reader stands in the document, and what it has read of the string.
ReadStep(s, c) ==
  IF s.at = "string" THEN IF c = "quote" THEN [s EXCEPT !.at = "after"]
                          ELSE IF c = "slash" THEN [s EXCEPT !.at = "escape"]
                          ELSE IF c \in Blank THEN [s EXCEPT !.at = "refused"]
                          ELSE [s EXCEPT !.value = Append(@, c)]
  ELSE IF s.at = "escape" /\ c = "esc" THEN [at |-> "string", value |-> Append(s.value, "newline")]
  ELSE IF s.at = "escape" /\ c \in {"quote", "slash"} THEN [at |-> "string", value |-> Append(s.value, c)]
  ELSE IF s.at = "start" /\ c = "open" THEN [s EXCEPT !.at = "field"]
  ELSE IF s.at = "field" /\ c = "quote" THEN [s EXCEPT !.at = "string"]
  ELSE IF s.at = "after" /\ c = "newline" THEN [s EXCEPT !.at = "last"]
  ELSE IF s.at = "last" /\ c = "close" THEN [s EXCEPT !.at = "end"]
  ELSE [s EXCEPT !.at = "refused"]

Read(text) ==
  LET read[i \in 0..Len(text)] == IF i = 0 THEN [at |-> "start", value |-> <<>>] ELSE ReadStep(read[i - 1], text[i])
  IN read[Len(text)]

Parsed(text) == IF Read(text).at = "end" THEN [ok |-> TRUE, value |-> Read(text).value] ELSE [ok |-> FALSE]

BareQuotes(sent) == {i \in 1..Len(sent) : sent[i] = "quote" /\ (i = 1 \/ sent[i - 1] # "slash" \/ (i > 2 /\ sent[i - 2] = "slash"))}

\* A bare quote before a separator, or before the closing quote's own separator, reads as the end.
Ambiguous(sent) == \E i \in BareQuotes(sent) :
  LET rest == SubSeq(sent, i + 1, Len(sent))  next == SelectInSeq(rest, LAMBDA c : c \notin Blank)
  IN next > 0 /\ rest[next] \in Structural

Uses(sent, c) == \E i \in 1..Len(sent) : sent[i] = c

\* Bare quotes confuse the search for the object, unless they pair up and no brace or escape stands between them.
ObjectIsFound ==
  LET sent == meant.sent IN
  \/ BareQuotes(sent) = {}
  \/ meant.wrapping \in {"bare", "opened"} /\ ~Uses(sent, "close")
  \/ meant.wrapping = "fenced"
  \/ meant.wrapping = "prose" /\ Cardinality(BareQuotes(sent)) % 2 = 0 /\ \A c \in {"open", "close", "slash"} : ~Uses(sent, c)

JsonTypeOK ==
  /\ phase \in {"reply", "repair", "done"} /\ inString \in BOOLEAN
  /\ at \in 1..(Len(body) + 1)
  /\ body \in Seq(Characters) /\ repaired \in Seq(Characters)

(* A whole reply is read as the text the model meant, however it was wrapped:   *)
(* valid JSON is left alone, and stray escapes, bare quotes and raw control     *)
(* characters are repaired, unless a bare quote stands before a separator or    *)
(* the quotes hide where the object ends (json-recovery.ts:59-99).              *)
MeantIsRead ==
  phase = "done" /\ meant.wrapping \notin Cuts /\ ObjectIsFound /\ ~Ambiguous(meant.sent)
    => Parsed(repaired) = [ok |-> TRUE, value |-> meant.text]

(* A reply cut off at the token limit is never completed into a document: it    *)
(* must reach the re-ask, not the queue (extract.ts:154-172).                   *)
CutIsNotCompleted == phase = "done" /\ meant.wrapping \in Cuts /\ ~Ambiguous(meant.sent) => ~Parsed(repaired).ok

(* The repair gives back what the model meant to write, or nothing: it changes  *)
(* no text, and completes no document that was cut off (json-recovery.ts).      *)
RepairIsFaithful == JsonTypeOK /\ MeantIsRead /\ CutIsNotCompleted
=============================================================================
