------------------------------- MODULE LlamaCpp -------------------------------
(***************************************************************************)
(* llm/llamacpp_llm.cpp: calls one after the other on one LlamacppLLM.     *)
(* They share the llama_context, which no call clears: a prompt is decoded *)
(* behind everything the calls before it left there.  (Two calls at once   *)
(* would race on the context, which has no lock; they are not modelled.)   *)
(*                                                                         *)
(* A piece is a sequence of letters, a token its piece or the end of       *)
(* generation; sampling may choose any.                                    *)
(***************************************************************************)
EXTENDS Naturals, Sequences, SequencesExt

CONSTANTS
  ContextSize,    \* cfg.n_ctx
  Pieces,         \* what a token may stand for
  Stops,          \* the stop strings of a request, tried in any order
  MaxPrompt,      \* tokens of a prompt
  MaxNew,         \* req.max_tokens
  MaxCalls

VARIABLES
  ctx,        \* the tokens in the context: a piece, or <<>> for one of a prompt
  calls,      \* history: invocations so far
  spent,      \* history: total_tokens over the replies
  unpaid,     \* history: the tokens that calls left in the context and threw
  lphase,     \* "idle", "sampling", "returned", "threw"
  limit,      \* max_new
  willing,    \* on_piece answers true so many times
  output,
  pieces,     \* history: what on_piece was given
  promptTokens,
  finishReason

vars == <<ctx, calls, spent, unpaid, lphase, limit, willing, output, pieces, promptTokens, finishReason>>

Init ==
  /\ ctx = <<>> /\ calls = 0 /\ spent = 0 /\ unpaid = 0 /\ lphase = "idle"
  /\ limit = 0 /\ willing = 0 /\ output = <<>> /\ pieces = <<>> /\ promptTokens = 0 /\ finishReason = "stop"

\* apply_chat_template and tokenize: a prompt of some length, or a throw.
Prompts == UNION {[1..n -> {<<>>}] : n \in 1..MaxPrompt}

\* llama_decode: 0, unless the tokens do not fit behind those that are there.
Fits(tokens) == Len(ctx) + Len(tokens) <= ContextSize

Throw ==
  /\ lphase' = "threw"
  /\ UNCHANGED <<ctx, spent, unpaid, limit, willing, output, pieces, promptTokens, finishReason>>

Prefill(prompt) ==
  IF ~Fits(prompt) THEN Throw
  ELSE \E most \in 0..MaxNew, w \in 0..MaxNew :
         /\ ctx' = ctx \o prompt /\ promptTokens' = Len(prompt)
         /\ limit' = most /\ willing' = w
         /\ output' = <<>> /\ pieces' = <<>> /\ finishReason' = "stop"
         /\ lphase' = "sampling" /\ UNCHANGED <<spent, unpaid>>

Invoke ==
  /\ lphase \in {"idle", "returned", "threw"} /\ calls < MaxCalls
  /\ calls' = calls + 1
  /\ Throw \/ \E prompt \in Prompts : Prefill(prompt)

Return(reason) ==
  /\ lphase' = "returned" /\ finishReason' = reason
  /\ spent' = spent + promptTokens + Len(pieces')
  /\ UNCHANGED <<calls, unpaid, limit, willing, promptTokens>>

\* Mutation: only an output that is the stop string stops the generation.
StopHitWhole(s, text) == s # <<>> /\ s = text

StopHit(s, text) == s # <<>> /\ IsSuffix(s, text)

\* One turn of the loop.
Sample(piece) ==
  /\ output' = output \o piece /\ pieces' = Append(pieces, piece)
  /\ IF Len(pieces) >= willing THEN Return("abort") /\ UNCHANGED ctx
     ELSE \/ /\ ~\E s \in Stops : StopHit(s, output \o piece)
             /\ IF ~Fits(<<piece>>) THEN Return("error") /\ UNCHANGED ctx
                ELSE /\ ctx' = Append(ctx, piece)
                     /\ IF Len(pieces) = limit - 1 THEN Return("length")
                        ELSE UNCHANGED <<calls, spent, unpaid, lphase, limit, willing, promptTokens, finishReason>>

\* The stop string is taken off the output; it has been streamed.
Stop(piece) ==
  /\ Len(pieces) < willing
  /\ \E s \in Stops :
       /\ StopHit(s, output \o piece)
       /\ output' = SubSeq(output \o piece, 1, Len(output \o piece) - Len(s))
  /\ pieces' = Append(pieces, piece)
  /\ Return("stop") /\ UNCHANGED ctx

\* An end-of-generation token, or max_tokens of 0.
Over == UNCHANGED <<ctx, output, pieces>> /\ Return("stop")

\* on_piece throws, and there is no reply: what is in the context stays there.
PieceThrows(piece) ==
  /\ output' = output \o piece /\ pieces' = Append(pieces, piece)
  /\ lphase' = "threw" /\ unpaid' = unpaid + promptTokens + Len(pieces)
  /\ UNCHANGED <<ctx, calls, spent, limit, willing, promptTokens, finishReason>>

Generate ==
  /\ lphase = "sampling"
  /\ \/ Over
     \/ \E piece \in Pieces : Len(pieces) < limit /\ (Sample(piece) \/ Stop(piece) \/ PieceThrows(piece))

Next == Invoke \/ Generate

Spec == Init /\ [][Next]_vars

-----------------------------------------------------------------------------
TypeOK ==
  /\ ctx \in Seq({<<>>} \cup Pieces) /\ Len(ctx) <= ContextSize
  /\ lphase \in {"idle", "sampling", "returned", "threw"}
  /\ pieces \in Seq(Pieces)
  /\ finishReason \in {"stop", "length", "abort", "error"}

StoppedAfter(k) == \E s \in Stops \ {<<>>} : IsSuffix(s, FlattenSeq(SubSeq(pieces, 1, k)))

(* A reply is what was streamed, without the stop string that ended it:    *)
(* generation goes on over no stop string, no refusal and no limit, and    *)
(* finish_reason says which of them it was.  The context holds what every  *)
(* call was charged for, but for the last token of each, and what those    *)
(* left that a callback's exception ended, which no usage counts: none is  *)
(* cleared between calls, and a call finds no room only for that reason.   *)
GeneratedExactly ==
  LET n == Len(pieces)
      cut == SubSeq(FlattenSeq(pieces), Len(output) + 1, Len(FlattenSeq(pieces)))
  IN  /\ lphase # "threw" =>
           /\ IsPrefix(output, FlattenSeq(pieces)) /\ (cut # <<>> => cut \in Stops)
           /\ n <= limit /\ \A k \in 1..(n - 1) : ~StoppedAfter(k)
      /\ lphase = "returned" =>
           /\ (finishReason = "abort") <=> (n > willing)
           /\ (finishReason = "length") => n = limit
           /\ (finishReason = "error") => Len(ctx) = ContextSize
           /\ n > 0 /\ StoppedAfter(n) /\ n <= willing => finishReason = "stop" /\ cut # <<>>
      /\ lphase # "sampling" => Len(ctx) <= spent + unpaid /\ spent + unpaid <= Len(ctx) + calls
=============================================================================
