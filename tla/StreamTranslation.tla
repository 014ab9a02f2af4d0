------------------------- MODULE StreamTranslation -------------------------
(***************************************************************************)
(* The goroutine between a provider that does not speak the OpenAI wire    *)
(* format and the chat handler.  ChatCompletionStream opens the upstream   *)
(* body, makes an io.Pipe and starts a translator; the translator reads    *)
(* one upstream event at a time, writes chunks into the pipe and closes    *)
(* the pipe either cleanly or with an error.  A pipe write is a rendezvous *)
(* with the handler's reader, and it fails once the reader has closed its  *)
(* end.  Text is reduced to "a text chunk"; token counts are kept, with    *)
(* the width of an int as a constant, since the usage chunk is what the    *)
(* request is charged by.                                                  *)
(***************************************************************************)
EXTENDS Integers, SequencesExt, FiniteSetsExt

CONSTANTS Providers,   \* of "anthropic", "gemini", "bedrock", "cohere"
          Counts,      \* the token counts an upstream may report
          MaxInt,      \* math.MaxInt
          MaxEvents    \* bound: events of one upstream body

VARIABLES provider,    \* the adapter in use
          at,          \* where the translator is
          seen,        \* the upstream events it has read
          todo,        \* the chunks it has still to write before it goes on
          finished,    \* its finished flag (Gemini, Bedrock)
          usage,       \* its usage so far: [prompt, completion], or NoUsage
          pipe,        \* what the reader received
          closed,      \* how the pipe was closed: "open", "eof", "error"
          reader,      \* the handler: "reading" or "gone"
          cut          \* how the body ended: "no", "eof", "error"

translateVars == <<provider, at, seen, todo, finished, usage, pipe, closed, reader, cut>>

NoUsage == [prompt |-> -1, completion |-> -1]

Overflows == -1

\* tokenSum: the sum of counts, or an error when one is negative or the sum
\* does not fit an int.
tokenSum(counts) ==
    FoldLeft(LAMBDA total, count :
                 IF total = Overflows \/ count < 0 \/ total > MaxInt - count
                 THEN Overflows ELSE total + count,
             0, counts)

Absent == -1

\* AnthropicUsage.Canonical: cache reads and writes are outside the native input count and are added once; the
\* writes come as one count, as the sum of two tiers, or as both.
AnthropicCanonical(n) ==
    LET write == IF n.tiers = Absent THEN n.cacheWrite ELSE n.tiers
        input == tokenSum(<<n.input, write, n.cacheRead>>)
    IN IF \/ n.tiers # Absent /\ n.cacheWrite \notin {0, write}
          \/ input = Overflows
          \/ tokenSum(<<input, n.output>>) = Overflows
       THEN NoUsage
       ELSE [prompt |-> input, completion |-> n.output]

\* Mutant of GeminiCanonical: the thoughts are left outside the completion.
GeminiThoughtsDropped(n) ==
    IF \/ tokenSum(<<n.prompt, n.candidates, n.thoughts>>) = Overflows
       \/ n.cached \notin 0..n.prompt
    THEN NoUsage
    ELSE [prompt |-> n.prompt, completion |-> n.candidates]

\* GeminiUsage.Canonical: the prompt count includes cache reads already, the
\* thoughts are outside the candidates' count and are added once.
GeminiCanonical(n) ==
    LET output == tokenSum(<<n.candidates, n.thoughts>>)
    IN IF \/ output = Overflows
          \/ tokenSum(<<n.prompt, output>>) = Overflows
          \/ n.cached \notin 0..n.prompt
       THEN NoUsage
       ELSE [prompt |-> n.prompt, completion |-> output]

\* Bedrock's canonicalUsage: metadata without usage counts nothing, cache
\* details that repeat a tier or name an unknown one are refused, and the rest
\* is counted as Anthropic's.
canonicalUsage(e) ==
    CASE e.type = "metadata" -> [prompt |-> 0, completion |-> 0]
      [] e.type = "bad" -> NoUsage
      [] e.type = "usage" -> AnthropicCanonical(e.native)

\* SetCompletionTokens, for a message_delta that reports output: the count is
\* cumulative and replaces the one before.
SetCompletionTokens(u, output) ==
    IF output = 0 THEN u
    ELSE IF tokenSum(<<u.prompt, output>>) = Overflows THEN NoUsage
    ELSE [u EXCEPT !.completion = output]

(***************************************************************************)
(* What an upstream may send.  "bad" is data that does not decode, "other" *)
(* an event the adapter passes over, "error" the provider's error event.   *)
(* A Gemini event that carries usage and text, or text and a finish        *)
(* reason, is the events of its parts in a row.                            *)
(***************************************************************************)
Plain(types) == [type : types]

NativeUsage == [input : {1}, cacheWrite : Counts \cup {0}, tiers : {Absent, 1},
                cacheRead : {1}, output : {1}]

AnthropicEvents ==
    Plain({"text", "message_stop", "error", "bad", "other"})
        \cup [type : {"message_start"}, native : NativeUsage]
        \cup [type : {"message_delta"}, output : Counts \cup {0}, mapped : BOOLEAN]

GeminiEvents ==
    Plain({"text", "finish", "error", "bad", "other"})
        \cup [type : {"usage"},
              native : [prompt : Counts, candidates : Counts, thoughts : Counts, cached : {0, 1}]]

BedrockEvents ==
    Plain({"text", "message_stop", "metadata", "bad", "other"})
        \cup [type : {"usage"}, native : NativeUsage]

CohereEvents == Plain({"content-delta", "message-end", "error", "bad", "other"})

EventsOf(p) == CASE p = "anthropic" -> AnthropicEvents
                 [] p = "gemini" -> GeminiEvents
                 [] p = "bedrock" -> BedrockEvents
                 [] p = "cohere" -> CohereEvents

Text == [chunk |-> "text"]
Finish == [chunk |-> "finish"]
UsageChunk(u) == [chunk |-> "usage", usage |-> u]
Done == [chunk |-> "done"]

TranslateInit ==
    /\ provider \in Providers
    /\ at = "opening"
    /\ seen = <<>> /\ todo = <<>> /\ pipe = <<>>
    /\ finished = FALSE
    /\ usage = [prompt |-> 0, completion |-> 0]
    /\ closed = "open"
    /\ reader = "reading"
    /\ cut = "no"

\* ChatCompletionStream: a transport error or a status from 400 up is
\* returned and its body closed, otherwise the translator is started.
ChatCompletionStream ==
    /\ at = "opening"
    /\ \/ at' = "scan" /\ UNCHANGED closed
       \/ at' = "returned" /\ closed' = "error"
    /\ UNCHANGED <<provider, seen, todo, finished, usage, pipe, reader, cut>>

\* The translator returns: the deferred closes run, and CloseWithError before
\* them wins over the deferred clean Close of the pipe.
Returns(how) ==
    /\ at' = "returned"
    /\ closed' = how
    /\ todo' = <<>>

\* It has chunks to write before it reads on, or before it returns.
Writes(chunks, next) ==
    /\ todo' = chunks
    /\ at' = next
    /\ UNCHANGED closed

ScansOn == UNCHANGED <<at, todo, closed>>

\* TranslateStream, one event of the scanner's loop.
AnthropicEvent(e) ==
    \/ e.type \in {"bad", "error"} /\ Returns("error") /\ UNCHANGED usage
    \/ e.type = "other" /\ ScansOn /\ UNCHANGED usage
    \/ e.type = "text" /\ Writes(<<Text>>, "scan") /\ UNCHANGED usage
    \/ /\ e.type = "message_start"
       /\ usage' = AnthropicCanonical(e.native)
       /\ IF usage' = NoUsage THEN Returns("error") ELSE ScansOn
    \/ /\ e.type = "message_delta"
       /\ usage' = SetCompletionTokens(usage, e.output)
       /\ \/ usage' = NoUsage /\ Returns("error")
          \/ usage' # NoUsage /\ e.mapped /\ Writes(<<Finish>>, "scan")
          \/ usage' # NoUsage /\ ~e.mapped /\ ScansOn
    \/ /\ e.type = "message_stop"
       /\ Writes(<<UsageChunk(usage), Done>>, "leave")
       /\ UNCHANGED usage

\* TranslateGeminiStream, one event: usage is remembered for the end, a
\* finish reason raises the finished flag.
GeminiEvent(e) ==
    \/ e.type \in {"bad", "error"} /\ Returns("error") /\ UNCHANGED <<usage, finished>>
    \/ e.type = "other" /\ ScansOn /\ UNCHANGED <<usage, finished>>
    \/ e.type = "text" /\ Writes(<<Text>>, "scan") /\ UNCHANGED <<usage, finished>>
    \/ e.type = "finish" /\ Writes(<<Finish>>, "scan") /\ finished' = TRUE /\ UNCHANGED usage
    \/ /\ e.type = "usage"
       /\ usage' = GeminiCanonical(e.native)
       /\ IF usage' = NoUsage THEN Returns("error") ELSE ScansOn
       /\ UNCHANGED finished

\* Bedrock's translateStream, one event: usage goes out as it comes.
BedrockEvent(e) ==
    \/ e.type = "other" /\ ScansOn /\ UNCHANGED <<usage, finished>>
    \/ e.type = "text" /\ Writes(<<Text>>, "scan") /\ UNCHANGED <<usage, finished>>
    \/ e.type = "message_stop" /\ Writes(<<Finish>>, "scan") /\ finished' = TRUE /\ UNCHANGED usage
    \/ /\ e.type \in {"usage", "metadata", "bad"}
       /\ usage' = canonicalUsage(e)
       /\ IF usage' = NoUsage THEN Returns("error") ELSE Writes(<<UsageChunk(usage')>>, "scan")
       /\ UNCHANGED finished

\* Cohere's translateStream, one event: what does not decode, and an error
\* event, are skipped like any other event.
CohereEvent(e) ==
    IF e.type \in {"content-delta", "message-end"}
    THEN Writes(<<IF e.type = "content-delta" THEN Text ELSE Finish>>, "scan")
    ELSE ScansOn

Event(e) ==
    /\ at = "scan" /\ todo = <<>> /\ cut = "no"
    /\ Len(seen) < MaxEvents
    /\ seen' = Append(seen, e)
    /\ \/ provider = "anthropic" /\ AnthropicEvent(e) /\ UNCHANGED finished
       \/ provider = "gemini" /\ GeminiEvent(e)
       \/ provider = "bedrock" /\ BedrockEvent(e)
       \/ provider = "cohere" /\ CohereEvent(e) /\ UNCHANGED <<usage, finished>>
    /\ UNCHANGED <<provider, pipe, reader, cut>>

\* What follows Gemini's loop: a scanner error, then a missing finish, close
\* the pipe with an error; otherwise usage and [DONE].
GeminiEnd(how) ==
    IF how = "error" \/ ~finished
    THEN Returns("error")
    ELSE LET reported == \E i \in 1..Len(seen) : seen[i].type = "usage"
         IN Writes((IF reported THEN <<UsageChunk(usage)>> ELSE <<>>) \o <<Done>>, "leave")

\* What follows Bedrock's loop: es.Err(), then the finished flag.
BedrockEnd(how) ==
    IF how = "error" \/ ~finished
    THEN Returns("error")
    ELSE Writes(<<Done>>, "leave")

\* The body ends.  Anthropic's loop is left only by a body without its
\* message_stop, always an error; Cohere's writes [DONE] however it ended.
\* Once the handler is gone its context is cancelled and reads fail.
BodyEnds(how) ==
    /\ at = "scan" /\ todo = <<>> /\ cut = "no"
    /\ cut' = how
    /\ \/ provider = "anthropic" /\ Returns("error")
       \/ provider = "gemini" /\ GeminiEnd(how)
       \/ provider = "bedrock" /\ BedrockEnd(how)
       \/ provider = "cohere" /\ Writes(<<Done>>, "leave")
    /\ UNCHANGED <<provider, seen, finished, usage, pipe, reader>>

\* One write into the pipe.  A write to a reader that is gone fails: Cohere
\* ignores it, the others return; the outcome of Gemini's and Bedrock's last
\* write is ignored too, which makes no difference to a reader that is gone.
PipeWrite ==
    /\ todo # <<>>
    /\ IF reader = "reading"
       THEN pipe' = Append(pipe, Head(todo)) /\ todo' = Tail(todo) /\ UNCHANGED <<at, closed>>
       ELSE /\ UNCHANGED pipe
            /\ IF provider = "cohere"
               THEN todo' = Tail(todo) /\ UNCHANGED <<at, closed>>
               ELSE Returns("error")
    /\ UNCHANGED <<provider, seen, finished, usage, reader, cut>>

\* The last chunk is written: the function returns and closes the pipe.
Leave ==
    /\ at = "leave" /\ todo = <<>>
    /\ Returns("eof")
    /\ UNCHANGED <<provider, seen, finished, usage, pipe, reader, cut>>

\* The handler stops reading (its client left, a deadline passed) and closes
\* its end of the pipe.
ReaderLeaves ==
    /\ reader = "reading" /\ at # "opening"
    /\ reader' = "gone"
    /\ UNCHANGED <<provider, at, seen, todo, finished, usage, pipe, closed, cut>>

TranslateNext ==
    \/ ChatCompletionStream
    \/ \E e \in EventsOf(provider) : Event(e)
    \/ \E how \in {"eof", "error"} : BodyEnds(how)
    \/ PipeWrite
    \/ Leave
    \/ ReaderLeaves

TranslateSpec == TranslateInit /\ [][TranslateNext]_translateVars

(***************************************************************************)
(* Properties.                                                             *)
(***************************************************************************)
Received(kind) == SelectSeq(pipe, LAMBDA c : c.chunk = kind)
Sent(types) == SelectSeq(seen, LAMBDA e : e.type \in types)

\* docs/token-pricing.md: the Gemini, Anthropic and Bedrock streams "reject
\* malformed/truncated upstream completion".  A reader that receives [DONE]
\* was given every text the provider sent, the provider had sent its terminal
\* event and nothing that does not decode, and the body had not failed; a
\* reader that stays until a clean end of the pipe always got [DONE].
DoneIsEarned ==
    /\ provider # "cohere" /\ Received("done") # <<>> =>
          /\ Len(Received("text")) = Len(Sent({"text"}))
          /\ Sent({"finish", "message_stop"}) # <<>>
          /\ Sent({"bad", "error"}) = <<>>
          /\ cut # "error"
    /\ closed = "eof" /\ reader = "reading" => Last(pipe) = Done

\* docs/token-pricing.md, "Native usage normalization": a stream that reported
\* usage and ended in [DONE] carried a usage chunk, and the chunk counts every
\* token of the provider's last report once and fits an int: cache reads and
\* writes come on top of Anthropic's and Bedrock's input, thoughts on top of
\* Gemini's candidates, and Anthropic's cumulative output replaces the first.
UsageCountsOnce ==
    LET reports == {i \in 1..Len(seen) : seen[i].type \in {"usage", "message_start"}}
        last == Max(reports)
        n == seen[last].native
        outputs == {i \in last..Len(seen) : seen[i].type = "message_delta" /\ seen[i].output # 0}
        output == IF outputs = {} THEN n.output ELSE seen[Max(outputs)].output
        u == Last(Received("usage")).usage
    IN Received("done") # <<>> /\ reports # {} /\ Sent({"metadata"}) = <<>> =>
          /\ Received("usage") # <<>>
          /\ u.prompt + u.completion =
                IF provider = "gemini"
                THEN n.prompt + n.candidates + n.thoughts
                ELSE n.input + (IF n.tiers = Absent THEN n.cacheWrite ELSE n.tiers)
                       + n.cacheRead + output
          /\ u.prompt + u.completion <= MaxInt
=============================================================================
