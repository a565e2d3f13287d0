------------------------------- MODULE MCClients -------------------------------
(***************************************************************************)
(* The client side: the agents, what stands between them and a model, an   *)
(* agent or a tool elsewhere, and how the chat window shows an answer.     *)
(* choice is one of Scenes; the variables of the others are None, those of *)
(* the shared client (extended with the loops) keep their initial values.  *)
(***************************************************************************)
EXTENDS Loops

CONSTANTS
  Scenes,
  Texts, MaxEvents, MaxBlocks,            \* "backend"
  MaxUpdates,                             \* "a2a"
  MaxCallbacks, MaxNesting,               \* "markdown"
  Widths, Height, MaxMessages, MaxSteps   \* "bubbles"

VARIABLES
  choice,
  provider, stream, streamed, said, endpoint, patience, wire, st, phase, reply, payload,
  amode, sent, got, updates, frames, abuffer, heard, agreed, astate,
  nesting, spansOpen, callbacks, words, blocks, mcurrent, table, row, cell, style, collecting,
  lists, quote_depth, parsed,
  messages, layout_pending, bottom_scroll_pending, width, canvas, yposition, stale, scrolled, vsteps

Backend == INSTANCE Backends WITH events <- streamed
A2A     == INSTANCE A2AWire WITH willing <- agreed
Text    == INSTANCE Markdown WITH said <- words
Bubbles == INSTANCE BubbleLayout

backendVars == <<provider, stream, streamed, said, endpoint, patience, wire, st, phase, reply, payload>>
a2aVars     == <<amode, sent, got, updates, frames, abuffer, heard, agreed, astate>>
textVars    == <<nesting, spansOpen, callbacks, words, blocks, mcurrent, table, row, cell, style, collecting,
                 lists, quote_depth, parsed>>
bubbleVars  == <<messages, layout_pending, bottom_scroll_pending, width, canvas, yposition, stale, scrolled, vsteps>>
all == <<choice, agentVars, coordVars, harnessVars, backendVars, llamaVars, vars, a2aVars, mcpVars,
         textVars, bubbleVars>>

(* What tokens stand for, and what stops a generation, in the cfgs.        *)
SomePieces == {<<"x">>, <<"x", "y">>, <<"y">>}
SomeStops  == {<<"x", "y">>, <<"y", "x">>}

NoAgent ==
  /\ agent = None /\ mode = None /\ mem = None /\ pc = None /\ iter = None /\ memory = None /\ stored = None
  /\ conv = None /\ todo = None /\ open = None /\ events = None /\ steps = None /\ finished = None /\ aborted = None
NoCoord ==
  /\ size = None /\ stopOnError = None /\ passPrevious = None /\ cpc = None
  /\ given = None /\ results = None /\ allFinished = None
NoHarness ==
  /\ hpc = None /\ evolution = None /\ iterations = None /\ corrections = None
  /\ best = None /\ succeeded = None /\ learned = None
NoBackend ==
  /\ provider = None /\ stream = None /\ streamed = None /\ said = None /\ endpoint = None /\ patience = None
  /\ wire = None /\ st = None /\ phase = None /\ reply = None /\ payload = None
NoLlama ==
  /\ ctx = None /\ calls = None /\ spent = None /\ unpaid = None /\ lphase = None /\ limit = None /\ willing = None
  /\ output = None /\ pieces = None /\ promptTokens = None /\ finishReason = None
NoA2A ==
  /\ amode = None /\ sent = None /\ got = None /\ updates = None /\ frames = None
  /\ abuffer = None /\ heard = None /\ agreed = None /\ astate = None
NoMcp ==
  /\ registered = None /\ body = None /\ batched = None /\ replies = None
  /\ ran = None /\ spans = None /\ status = None

NoText ==
  /\ nesting = None /\ spansOpen = None /\ callbacks = None /\ words = None /\ blocks = None /\ mcurrent = None
  /\ table = None /\ row = None /\ cell = None /\ style = None /\ collecting = None /\ lists = None
  /\ quote_depth = None /\ parsed = None
NoBubbles ==
  /\ messages = None /\ layout_pending = None /\ bottom_scroll_pending = None /\ width = None
  /\ canvas = None /\ yposition = None /\ stale = None /\ scrolled = None /\ vsteps = None

MCInit ==
  /\ choice \in Scenes /\ Init
  /\ IF choice = "agent"       THEN Agent!Init   ELSE NoAgent
  /\ IF choice = "coordinator" THEN Coord!Init   ELSE NoCoord
  /\ IF choice = "harness"     THEN Harn!Init    ELSE NoHarness
  /\ IF choice = "backend"     THEN Backend!Init ELSE NoBackend
  /\ IF choice = "llamacpp"    THEN Llama!Init   ELSE NoLlama
  /\ IF choice = "a2a"         THEN A2A!Init     ELSE NoA2A
  /\ IF choice = "mcp"         THEN Mcp!Init     ELSE NoMcp
  /\ IF choice = "markdown"    THEN Text!Init    ELSE NoText
  /\ IF choice = "bubbles"     THEN Bubbles!Init ELSE NoBubbles

Models == <<backendVars, llamaVars, vars>>
Loops  == <<agentVars, coordVars, harnessVars>>
Remote == <<a2aVars, mcpVars>>
Shown  == <<textVars, bubbleVars>>

AgentNext   == choice = "agent"       /\ Agent!Next   /\ UNCHANGED <<choice, coordVars, harnessVars, Models, Remote, Shown>>
CoordNext   == choice = "coordinator" /\ Coord!Next   /\ UNCHANGED <<choice, agentVars, harnessVars, Models, Remote, Shown>>
HarnessNext == choice = "harness"     /\ Harn!Next    /\ UNCHANGED <<choice, agentVars, coordVars, Models, Remote, Shown>>
BackendNext == choice = "backend"     /\ Backend!Next /\ UNCHANGED <<choice, Loops, llamaVars, vars, Remote, Shown>>
LlamaNext   == choice = "llamacpp"    /\ Llama!Next   /\ UNCHANGED <<choice, Loops, backendVars, vars, Remote, Shown>>
ConfigNext  == choice = "config"      /\ Next         /\ UNCHANGED <<choice, Loops, backendVars, llamaVars, Remote, Shown>>
A2ANext     == choice = "a2a"         /\ A2A!Next     /\ UNCHANGED <<choice, Loops, Models, mcpVars, Shown>>
McpNext     == choice = "mcp"         /\ Mcp!Next     /\ UNCHANGED <<choice, Loops, Models, a2aVars, Shown>>
TextNext    == choice = "markdown"    /\ Text!Next    /\ UNCHANGED <<choice, Loops, Models, Remote, bubbleVars>>
BubbleNext  == choice = "bubbles"     /\ Bubbles!Next /\ UNCHANGED <<choice, Loops, Models, Remote, textVars>>

MCNext ==
  AgentNext \/ CoordNext \/ HarnessNext \/ BackendNext \/ LlamaNext \/ ConfigNext \/ A2ANext \/ McpNext
    \/ TextNext \/ BubbleNext

MCSpec == MCInit /\ [][MCNext]_all

(* The properties of the modules, see there.                               *)
TypesOK ==
  /\ TypeOK
  /\ choice = "agent" => Agent!TypeOK
  /\ choice = "coordinator" => Coord!TypeOK
  /\ choice = "harness" => Harn!TypeOK
  /\ choice = "backend" => Backend!TypeOK
  /\ choice = "llamacpp" => Llama!TypeOK
  /\ choice = "a2a" => A2A!TypeOK
  /\ choice = "mcp" => Mcp!TypeOK
  /\ choice = "markdown" => Text!TypeOK
  /\ choice = "bubbles" => Bubbles!TypeOK
EveryCallAnswered == choice = "agent" => Agent!EveryCallAnswered
TurnTold ==
  choice = "agent" => Agent!TurnStored /\ Agent!EventsTellSteps
AbortEndsRun == Agent!AbortEndsRun
RunnersChain ==
  /\ choice = "coordinator" => Coord!InputsChain
  /\ choice = "harness" => Harn!BestIsAnswer
ExchangeKept ==
  /\ choice = "backend" => Backend!StreamTracksWire /\ Backend!EchoesReply
  /\ choice = "a2a" => A2A!WireKeeps
GeneratedExactly == choice = "llamacpp" => Llama!GeneratedExactly
AnswersArrive    == choice = "mcp" => Mcp!RepliesAnswer
AnswerShown ==
  /\ choice = "markdown" => Text!WordsInPlace
  /\ choice = "bubbles" => Bubbles!BubblesHold
=============================================================================
