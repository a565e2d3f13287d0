# langchain.cpp in TLA+

Specifications of the C++ library in `src/` and of the chat window that comes
with it, the TLC configurations that check them on small instances, and TLAPS
proofs of what can be proved for every instance. `PROJECT.json` relates every
definition to the lines it models.

    tlasany M.tla                        parse a module
    tlc -workers 2 -config X.cfg M       check a run (section 3)
    tlapm MProofs.tla                    check the proofs

## 1. The system

One static library. Its objects are used by the threads of an application, by
the workers of one process-wide thread pool, and by httplib's request threads.

| component | state | operations | called by / calls |
|---|---|---|---|
| `util::ThreadPool` | `tasks_`, `stop_`, workers | constructor, `submit`, destructor | ILLM submits to `default_pool()` |
| `llm::ILLM` | `hooks_` | `invoke`, `async_invoke` (and `_stream`), `set_hooks` | agents, ApiServer; calls the pool, HookManager, a backend |
| OpenAI, DeepSeek, Groq, Qwen, Anthropic, Gemini, Ollama backends | a buffer and a reply, per call | `invoke_impl`, `invoke_stream_impl` | ILLM; one HTTP request |
| `llm::LlamacppLLM` | a `llama_context`, shared by all calls | the same | ILLM; llama.cpp |
| `api::AIClient`, `HttpClient` | a copy of the configuration each | `set_config`, `chat_completions`, `chat_once`, `request`, `stream_post` | the chat window, applications |
| `vectorstore::SqliteVectorStore`, `InMemoryVectorStore` | `docs_`, a table, a transaction | add, update, delete, search, load at start | retrievers, skills |
| `vectorstore::FaissVectorStore` | `docs_`, an index, a count | add, delete, search | retrievers |
| `retriever::*` | none of their own | `retrieve` | vector stores, an LLM |
| `memory::*Memory` | a vector, a window of it, or a file shared by sessions | `add`, `add_exchange`, `messages`, `clear`, sessions | agents, ApiServer |
| `agent::ReActAgent`, `ToolCallingAgent` | none between invocations | `invoke`, `invoke_stream` | ILLM, tools, memory, hooks, `on_event` |
| `agent::CoordinatorAgent`, `harness::HarnessAgent` | registered agents; configuration | `invoke` | other agents |
| `api::ApiServer` | routes, models, agents, resolver, `hooks_`, `running`, worker thread | registration, `start`, `run`, `stop`, requests, streams, `set_hooks` | httplib; calls ILLM, agents, memory, hooks |
| `mcp::McpServer`, `McpClient` | tools, `running`, worker thread | `start`, `run`, `stop`, JSON-RPC | httplib; calls tools |
| `a2a::A2AServer`, `A2AClient` | the task map | send, sendSubscribe, get, cancel | ApiServer routes; the application's handler |
| `util::Signal`, `util::EventBus`, `hook::HookManager` | a list of observers | connect, disconnect, emit | everything above |
| `util::Timer` | `running_`, `stop_flag_`, `worker_` | `start_once`, `start_interval`, `stop`, destructor | a callback on its worker |
| `util::Config` | sections, file path, last write time | load, reload, save, set | the file system |
| `text_splitter::*` | none | `split_text` | document loaders, RAG |
| chat window (`examples/00_smart_app/ui`) | conversations, a bubble, a queue of closures, a worker thread, a flush timer | send, stop, clear, open, close; Markdown and layout of a message | FLTK; `AIClient` |
| embedding, prompts, tools, skills, loaders, logging and other utilities | none that outlives a call, or caches | | not modelled, see section 8 |

What is hard, and where:
- *threads*: the pool's notification after the unlock; callbacks that throw, or
  call back into the pool while it shuts down; one SQLite connection and its
  transaction shared by all threads; an index and a list of documents under
  two locks; a configuration read without the lock it is written under; a stop
  that comes before the thread it stops has got anywhere (ApiServer,
  McpServer, Timer); lists that change while they are gone over; hooks, routes
  and memories replaced in the middle of a request; a UI thread that joins the
  worker whose closures it has yet to run;
- *failure*: a metadata or message that cannot be serialised after half of the
  work; a statement or a file whose failure nobody looks at; a busy database;
  a crash inside a transaction, an append or a save; a
  tool, memory, resolver, stream handler or callback that throws at any point;
  a stream that is cut, refused, or told of an error in the middle;
- *order*: a task known to a subscriber before it is in the map; a cancel
  against a running or resent task; events against the state they announce;
  a file edited between being read and being asked for its time; an answer
  that arrives when another conversation is open;
- *limits*: the context of llama.cpp, which no call clears; chunks and bubbles
  that must not lose or cut what they hold.

`PROJECT.json` lists these under `hazards`, each at its line, with the property
that would catch it going wrong, or a note on what that property leaves out.

What makes each component correct:
- pool: accepted tasks run once, in order, whatever is thrown; no wake-up is
  lost; the destructor drains the queue and returns;
- ILLM: every call ends; hooks and callback hear of it once, at one manager;
- backends and clients: a stream that has arrived as far as some event has made
  of the reply what the events up to it say, wherever it was cut into chunks;
  what goes back to the provider says the same as what came; a request uses no
  configuration older than it must;
- vector stores: memory and table agree; what was reported done survives;
  a search returns the best documents, each with its own score;
- memories: reads return what was added, per session; the window is the end;
- agents: every tool call is answered before the model is asked again; a turn
  is stored whole or not at all; events tell what happened;
- servers: `running` is the truth, calls return, every Before has its After,
  a stream ends once; a request meets the route, backend and memory it is
  meant for; the reply says what the model or agent told; a returned task is
  known and a cancel holds;
- utilities: emissions call who stayed, once; timers have one thread, joined;
  edits are seen; text is not lost;
- chat window: an answer is stored once, behind its question if the user waits
  for it; joins return; every word of an answer is shown once, in place, in its style.

## 2. Modules

| module | models | state, in the code's terms |
|---|---|---|
| `TaskExecutor` | what an executor promises | a log of tasks, how many were taken, which are done |
| `ThreadPool` | `thread_pool.cpp` | `tasks`, `stop`, per worker where it is in its loop, pending notifications; histories `accepted`, `started`, `finished`, `refused` |
| `AsyncLLM` | `llm.cpp` over a `ThreadPool` | per call its stage, the manager and id of its span, what After and `on_complete` saw |
| `BackendCodecs` | what the seven HTTP backends and AIClient write and read, as functions | none: endpoints, payloads, messages, frames |
| `Backends` | one exchange of a backend with its provider, and the next payload | the events sent, the tokens on the wire, the receiver's buffer and reply |
| `LlamaCpp` | calls one after the other on one LlamacppLLM | the context, what is sampled, streamed and returned, what was charged for and what a throw left `unpaid` |
| `ClientConfig` | AIClient's configuration and threads that use it | both copies, both mutexes, what each thread has read |
| `SqliteVectorStore` | `vectorstore.cpp`, in memory and in SQLite | `docs`, `mu`, the table as connection (`db`) and restart (`disk`) see it, the transaction and its owner; histories of what was reported, of what failed unnoticed (`skipped`, `stuck`), of what rode on a transaction |
| `Retrieval` | the FAISS store, the memory store's search, the retrievers | the index, `docs_`, the count, per thread the document that is in one and not yet in the other |
| `ShortTermMemory` | BufferMemory and WindowMemory, fed alike | `buffer`, `window`, half-finished exchanges |
| `ConversationLog`, `LongTermMemory` | one log per session; the class with both backends | the file's lines, caches and dirty flags, SQLite's writer |
| `HttplibServer` | external: bind, listen, stop of httplib::Server as `src/` uses them | socket, `is_running_`, `is_decommissioned` |
| `ApiServerLifecycle`, `McpServerLifecycle` | start, run, stop, destructor | `running`, where the worker and each caller are |
| `ApiRequests` | the spans and streams of requests | per request its call id, who got Before and After, what the stream did |
| `ApiRoutes` | which handler a request finds, and what it is given | the table, a request, the copy of the table it is compared with |
| `ChatSessions` | the backend and the memory of a chat, and the turn it stores | registrations, the resolver's answer, per request where it is, the memories |
| `ChatExchange` | one chat completion between AIClient and ApiServer | the body, what the model or agent tells and returns (`made`), the events, the client's reply |
| `A2ATasks` | the task map and its clients | the map, per client where its call is and the last frame it received |
| `A2AWire` | the JSON of tasks and cards, the stream of a subscription | the object sent, the object read; the buffer and what the caller heard |
| `McpRpc` | a JSON-RPC request, its dispatch and the client's reading | the tools, the envelopes, the replies, spans and tools run |
| `Agents` | `run_impl_msg` of both agents with span, callbacks and memory | `conv`, pending calls, events, steps, the session's memory |
| `Coordinator`, `Harness` | their `invoke` | results and inputs; scores, corrections, the chosen result |
| `Broadcast` | Signal, EventBus and HookManager | the list, per thread its nested emissions, scoped connections |
| `Timer` | `timer.cpp` | flags, schedule, `worker_`, where the worker and each caller are |
| `ConfigFile` | `config.cpp` against the file and others who edit it | versions, times, the step of the running call |
| `TextSplitter` | both splitters, as functions of a text | input and chunks |
| `ChatWindow` | `chat_app.cpp`: the UI thread, the worker, the closures between them | conversations, the bubble, `pending`, the queue, the running request |
| `Markdown` | md4c's callbacks, turned into blocks | md4c's nesting (external); the `ParseContext` |
| `BubbleLayout` | how high a message is taken to be, what is drawn, the view | heights of both, the scroll position |
| `Loops` | agents, coordinator, harness, the shared client, LlamacppLLM and the calls over MCP side by side | those of the six |
| `ThreadPoolProofs`, `AsyncLLMProofs`, `StorageProofs`, `ServersProofs`, `LibraryProofs`, `LoopsProofs`, `ClientsProofs` | theorems (section 7) | |
| `SequenceFacts` | lemmas about sequences that these share | |
| `MCStorage`, `MCServers`, `MCClients`, `MCLibrary` | instances for TLC; pool and layer need none | |

Interactions. `AsyncLLM` instantiates `ThreadPool` on its own variables, so a
call is queued, refused, run and drained by the pool's own actions; its tasks
are its calls. Both lifecycles are built on `HttplibServer`. `ChatExchange`
extends `BackendCodecs`: the messages and frames of a chat completion are the
ones AIClient's side of `Backends` reads; `A2AWire` cuts its frames by the same
definition. `LongTermMemory` is compared with `ConversationLog`, `ThreadPool`
with `TaskExecutor`. What a component meets only as an outcome is a
nondeterministic choice: a backend answers, fails or throws; a tool, a memory,
a resolver or a callback may throw; another invocation writes to the memory of
an agent at any time; a server's clients come and leave at any time; the
provider, the network and md4c do whatever their protocol allows.

Atomic steps. A method that holds its mutex throughout is one action. One that
releases it, runs a callback, waits, or touches a file or connection others
touch is as many actions as it has such points: `submit` is push and notify,
`add_documents` is memory, BEGIN, lock, one INSERT at a time and COMMIT (and in
the FAISS store index, then documents), `stop()` is its check, httplib's stop
and the joins, `save` is truncate, write and the question for the time, a
request of AIClient is one action per field it reads. Code that is sequential
between two such points (a payload, a frame, a layout) is a function. Where the
code's data is irrelevant to the properties (texts, prompts, scores beyond
their order) it is a small set; a text of the wire is a sequence of pieces, a
stream of tokens may be cut between any two.

History variables record what callers were told, or which of the code's known
races and failures a behaviour contains (`early`, `overlap`, `retried`, `raced`,
`damaged`, `blind`, `excuse`, `lost`, `skipped`, `stuck`, `ungiven`,
`overlapped`). A property that excludes such a
behaviour names the variable and its comment says so; the behaviour itself is
in the model, and the hazard is in the list.

## 3. Runs

| run | what it asks | states |
|---|---|---|
| `ThreadPool` | drain, no lost wake-up, completion, the pool as an executor | 10 thousand |
| `AsyncLLM` | reports, spans, end of every call | 190 thousand |
| `Storage` | memories short and long, vector stores, searches | 580 thousand |
| `Servers` | both lifecycles, requests, routes, sessions, chats, tasks | 1.1 million |
| `Clients` | agents, backends, clients, A2A and MCP on the wire, an answer on the screen | 890 thousand |
| `Library` | observers, timer, config file, splitters, chat window | 259 thousand |
| `AsyncLLMCallback`, `VectorStoreUndelete`, `MemoryClear`, `ApiServerStop`, `AgentAbort`, `ClientUrl` | one documented promise each, which the code breaks (section 6) | |

`MCStorage`, `MCServers`, `MCClients` and `MCLibrary` run several modules: the
variable `choice` says which one steps, so that a run explores the union of
their state spaces and not the product. `Storage` looks at states through a
`VIEW` that leaves out the messages of a dirty JSON cache: `load_json_` empties
it before anything reads it. Each property below says which module
it is about, and means nothing while another one steps.

- `ThreadPool`: `TypeOK`; `WorkConserving` (while a worker sleeps, every queued
  task has a wake-up coming); `DrainedAtDestruction`; `AcceptedCompletes`
  (liveness: accepted tasks finish, the destructor returns); `ExecutorSpec`
  (refinement of `TaskExecutor!FairSpec`, with the order of the log, single
  execution, the width, and its fairness).
- `AsyncLLM`: `ReportedOnce`; `SpansPaired`; `CallsEnd` (liveness).
- `Storage`: `TypesOK`; `WindowIsSuffix`; `WholeExchanges`; `ReadsLog` (a long
  memory reads a beginning of what its session was given, all of it if nothing
  fails, and no other session's messages even then); `Durable` (what was reported
  done survives crashes, but for what its own failing file or statement, or the
  end of a transaction it rode on, took away unnoticed; in SQLite batches are
  whole or absent); `StoreAgrees` (a transaction is that of one add under way, or
  one whose COMMIT failed, and memory and table agree but for ids whose operation
  failed; with ids of the caller's own the table has the last document of each);
  `SearchesRank` (FAISS
  and memory stores return the best documents, each once and under its own
  score, FAISS until a deletion or two adds at once make its labels drift, and
  the retrievers on top lose and repeat none);
  `SqliteOneLog` (each step of the sqlite backend is one of `ConversationLog`).
- `Servers`: `TypesOK`; `RunningIsServing`; `RequestsServed` (every Before has one
  After at the same manager, a stream ends once; a request that found a route finds
  the same one later; the model or agent is given what the client sent, a body it
  cannot serve gets the error it deserves, and the client reads from the answer
  what was told, in order, and in a reply that is no stream the finish reason and
  the calls that were given); `RoutesChosen` (the first route added that fits
  answers, with the parameters of its pattern, unless the path is one the server
  keeps to itself); `SessionsApart` (a turn is in the memory of its
  session, unless the resolver gave none); `TasksHold` (a returned task is
  known, a cancel holds); `ServersEnd` (liveness).
- `Clients`: `TypesOK`; `EveryCallAnswered`; `TurnTold` (stored whole, and told
  in the order it happened); `RunnersChain` (coordinator inputs, the harness's
  best result); `ExchangeKept` (see backends above, and the echo of a reply in
  the next payload; A2A tasks, cards and updates); `GeneratedExactly` (what is
  returned is what was streamed, without the stop string that ended it, nothing
  is generated past a stop string, a limit or a refusal, and the finish reason
  says which it was); `NeverOlder`; `AnswersArrive` (a 200 answers every JSON-RPC
  envelope in order; whatever the response, tools run in turn and every run of
  one is told); `AnswerShown` (words in place and in style; what is measured is
  what is drawn, all of it is on the canvas, and the view is at the end).
- `Library`: `EmissionExact`; `StoppedIsJoined`; `FiresTheLatest`;
  `ChangesSeen`; `ChunksFit`; `RepliesInPlace`; `TimerEnds` and `WindowReturns`
  (liveness).

Each property is broken by at least one mutation of the model that a plausible
slip in the code would be (a dropped flag, a notification sent to one, a
rollback that commits, a delta merged at the wrong index); the mutated
definitions stand before the real ones, each under a comment that begins with
"Mutation". `Fifo` and `RunsOnce` are stated in `ThreadPool`, proved, and
follow from `ExecutorSpec`; they have no run of their own.

## 4. Bounds, and why they are enough

- `ThreadPool`: two workers, two outside callers, three tasks that may submit
  tasks. Two workers are needed for one to sleep while the other pops, exits or
  submits; three tasks for a queue of two behind a running one.
- `AsyncLLM`: two workers, one outside thread, two calls, of which one has a
  throwing callback; calls nest (a callback makes a call). Two managers for
  `set_hooks`. Pairing and reporting relate one call to at most one other.
- `Storage`. Windows: two threads, k = 2 and `MaxMessages` = 7, so that
  evictions fall inside and between exchanges (k is arbitrary in the proof).
  Long memories: two objects, two sessions, files of `MaxMsgs` = 2 messages,
  one clear and `MaxMishaps` = 2 crashes or failures (a file that does not open
  and a crash after it; failures that another object's lock explains are not
  counted): enough for a wrong `where`, a stale cache or a torn
  line to show. SQLite: two threads, two ids and at most `MaxDocs` = 3, two
  good values and a bad one, batches of two, `MaxFaults` = 2 crashes or failing
  statements (one to lose, one to show that the loss persists, or a COMMIT that
  fails and a crash that takes what came after it); once with ids of the store's own
  (`sqlite`) and once with a caller that repeats one (`caller`). Searches: two
  threads, `MaxAdds` = 3 documents over three embeddings and two tags, one
  deletion (the renumbering of the labels needs one, with two documents left).
- `Servers`: an owner and one other thread that calls stop. One request with
  spans: requests share only `hooks_` and the listening socket, and the
  environment changes both at any time. Two managers; a stream handler is
  called again up to `MaxRuns` = 2 times. Two routes out of patterns that
  overlap with each other and with built-in paths, paths with empty and
  repeated parts and a decoded `?`. Two chats, two sessions, two models, an
  agent with a memory of its own. A conversation of `MaxMessages` = 2, with at
  most `MaxTold` = 2 events before the end: two deltas show order; four finish
  reasons and none, with calls and without. Two clients
  over two task ids.
- `Clients`: two iterations with at most two calls each (a failing call before
  or after a good one, a second round after the first), two messages of other
  invocations; up to three coordinated agents (a failing one can be first,
  between or last); two corrections, scores below, at and above `MinScore` and
  NaN. Streams of `MaxEvents` = 3 events, cut between any two tokens: two
  fragments of a call and an end. A context of five tokens for three calls
  with prompts of up to two and answers of up to three, each of which a callback
  may end by a throw, so that it fills up at every point. Three threads and three configurations: the second can be
  torn by a third thread while a first one reads. Three A2A updates, batches
  of two envelopes. Ten callbacks nested four deep: a list in an item, a table
  in a quote, a span in a cell. Two views and two messages of blocks of every
  kind, whose texts are narrower and wider than a line.
- `Library`: three observer ids, two scoped connections, emissions nested twice
  in one thread: an emission shares only the list with others, and the list is
  changed at any time. One owner and one other thread at the timer, two
  callbacks; `fired` saturates at two, beyond which no property looks. Two
  versions of a file, four ticks of its clock. Every text of at most five
  characters, of separators and letters, split at sizes up to three: a chunk
  boundary falls on each side of every separator. Two requests, so that the
  second starts while closures of the first are queued, two pieces of text, two
  conversations, of which one is opened while the other's answer is on its way.

`CHECK_DEADLOCK FALSE` is set where a program may stop for good: a destroyed
object, an invocation that has ended, callers that call no more.

## 5. Fairness

Weak fairness only, of steps the operating system or the callee owes:
- pool workers and threads inside `submit` or the destructor run on, tasks
  terminate. Not fair: callers (nobody has to submit, or to destroy the pool)
  and spurious wake-ups, so no property relies on one;
- `AsyncLLM`: the same, and backends and callbacks return or throw (the code
  has no time-out of its own around them; the HTTP backends have);
- servers and timer: threads inside the object's code run on; httplib's accept
  loop ends only when stopped; the timer's callback returns. Nobody has to
  call `stop()`. A caller waiting in `join` is enabled only when the thread
  has ended, so fairness of it hides no deadlock;
- chat window: the worker runs on, its request ends (httplib has connect and
  read time-outs) and FLTK runs the closures it was awakened for and the timer
  it was given. The user has to do nothing.

Everything else has safety properties only, and specifications without
fairness.

## 6. Where code and documentation differ

| run | what TLC finds |
|---|---|
| `AsyncLLMCallback` | an `on_complete` that throws after a success is called again with an error (`llm.cpp:146`); `llm.h:99` says once |
| `VectorStoreUndelete` | a delete that returned is undone by a crash, because it ran inside another thread's transaction (`vectorstore.cpp:378`) |
| `MemoryClear` | `clear()` of a session of a JSON file empties all sessions, where SQLite clears one (`memory.cpp:482`); the header calls the backends interchangeable |
| `ApiServerStop` | a `stop()` right after `start()` is lost and the destructor waits for ever (`server.cpp:1423`), where `server.h:182` says run ends when stop is called |
| `AgentAbort` | `on_event` returns false and the agent still runs the tool or asks again (`agent.cpp:348`), where `agent.h:71` says "Return false to abort" |
| `ClientUrl` | a request reads the base URL while `set_config` assigns it (`client.cpp:248`), where `client.h:75` says "thread-safe" |

`ApiStopEndsRun` is checked under the fairness of section 5, `AbortEndsRun` is
an action property, the others are invariants.

The models also follow the code where it does less than one may expect, and
the properties leave these cases out by name, or say what the code does. They
have no run of their own:
- *files and statements that fail*: `add()` of a long memory returns although its
  file did not open or its statement met a lock, and `messages()` returns what it
  could read (`memory.cpp:294`, `405`, `431`; no busy timeout is set); a failing
  INSERT of the vector store is logged and its id returned, a failing UPDATE or
  DELETE is passed over (`vectorstore.cpp:363`, `387`, `415`); a COMMIT that fails
  leaves the transaction open (`vectorstore.cpp:112`), every later BEGIN fails
  unnoticed, and a restart finds nothing that was written since;
- *harness*: `harness.h:56` describes `succeeded` as "true if final check passed
  or max iter reached"; the code has it false when the tries run out, as
  `tests/test_harness.cpp:164` expects, and as `BestIsAnswer` says;
- *streams of the backends*: events that end in CRLF are never cut, and the
  reply is empty and without error; the last event without its blank line is
  dropped; an error told in the middle of a stream is passed over, and what
  came so far counts as a success; an error told with status 200 becomes a
  blank message of the user (all but OpenAI); tool calls without an index are
  merged into the first one; a fragment of a call with an empty name overwrites
  the name (`openai_llm.cpp:424`); Anthropic's `message_stop` has no stop reason,
  and the default "stop" read from it overwrites the one `message_delta` gave, so
  that a streamed reply that was cut short reads as finished
  (`anthropic_llm.cpp:281`); the JSON branch at `openai_llm.cpp:535` never runs,
  for `res->body` is empty when a content receiver is given; Anthropic sends
  neither `max_tokens` of the request nor tools; AIClient's stream drops tool
  calls, and a base URL that ends in `/v1` gets another;
- *llama.cpp*: no call clears the context, nor locks it; a callback that throws
  leaves the prompt and the answer so far there, which no usage counts; part of a stop string
  that lies across two pieces has been streamed when it is found;
- *API server*: an unknown model id is served by the first model; a resolver
  that returns no memory, or throws, leaves the agent with its own one, shared
  by all (`server.h:170` says memory is then off for the request); the resolver
  runs under `mu_`, so one that registers something would wait for itself; a
  body that is no object, a model that is no string and a stream flag that is
  no boolean leave the handler by an exception, as 500 and without events; an
  `image_url` that is a plain string is refused with 400, although
  `flatten_content` knows it; of the messages of a request an agent gets the
  last of the user; a stream that failed, whose agent gave up, or whose model gave another reason
  or called tools, reads as "stop" and without calls to AIClient; an exception
  whose `what()` is no UTF-8 makes `dump()` throw in the catch block: the request
  is answered by httplib, without its After, and inside a custom stream the
  process ends (`server.cpp:769`, `849`); routes for HEAD and OPTIONS are never reached; a `%3F` in a
  path is taken for the start of the query, values of which are not decoded;
- *A2A and MCP*: a schema that throws, or a description that is no UTF-8, ends
  `tools/list` as 500; half seconds, empty metadata and unknown parts are lost on the
  way, and unknown states read as pending; `McpClient` ignores `isError`, and its
  counter of ids is not synchronised;
- *FAISS*: the filter is applied after the k best are found, where
  `vectorstore.h:36` says that only documents that match are considered;
- *chat window*: the worker reads the client's configuration while the UI may
  set it; `chat_once` takes no notice of a cancel; a stream that is cancelled
  is shown as failed, its text stored; text of a tight list item after a nested
  block is lost, loose items have no bullet, the start of an ordered list is
  ignored, a span inside one of its own kind ends both; code is drawn four
  pixels below where it is measured; wide tables overflow.

## 7. Proofs

Checked by tlapm, leaf by leaf, for every value of the constants that the named
assumptions allow. Each inductive invariant below was first checked by TLC on
the instance of its run.

**`ThreadPoolProofs`**, from `PoolAssumption` (finitely many threads, at least
one worker, workers and outside callers apart, `None` no task). `TypeCorrect` is inductive alone.
`Fifo` (accepted = started followed by queued) and `RunsOnce` are not: that a
popped task is new needs the log to be free of repetitions, so `OrderInv` adds
`Distinct`, and the three are proved together. `ShutdownInv` ties the phase of
the destructor to `stop`, to the workers that have left, and to submits under
way; with `OrderInv` it gives `DrainedAtDestruction`. `WorkConserving` is
inductive over types: its lemma counts sleeping workers, pending notifications
and checking workers, action by action. `ImplementsExecutor` shows the initial
states and each step of the pool to be those of `TaskExecutor`, or stutters; it
uses `Fifo` to find the taken task in the log and `RunsOnce` to count the busy
workers.

**`AsyncLLMProofs`**, from `LayerAssumption` (that of the pool, with calls for
tasks) and `CallAssumption` (only watched calls have a callback that throws; no
manager is `None`). `ImplementsPool` shows every step of the layer to be one of
the pool or to leave the pool alone, so that what `ThreadPoolProofs` proves of
the pool holds inside the layer; `CallsHaveOneExecutor` and the last conjunct
of `ReportedOnce` (the calls are over when the destructor returns) rest on it,
with `FinishedInv` between the two: a task the pool has done is a call that is
over. The rest is `CallInv`: at each stage of a call, how many reports and
AfterLLMs there have been (`Progress`; a callback that throws after a success
goes round once more, `Again`), which id it holds (`SpanHeld`), and that no two
calls hold the same (`SpansDiffer`, without which a new id could be an old one).

**`StorageProofs`**, from `WindowAssumption` and `StorageAssumption` (`None` and `Nobody` are nothing
else, what cannot be written is among what callers give, there are two
backends, the bounds are natural numbers), for any number of objects, sessions, threads, ids and documents.
- `WindowKeepsTheEnd`, for every k: `WindowMemory` holds the last 2k messages of
  what `BufferMemory` would hold, although the one drops from the front while the
  other grows. It rests on `EvictAppend`: to append to the last 2k messages and
  evict is to append and take the last 2k. `WindowOfWholeExchanges` adds that the
  buffer, as long as exchanges do not overlap, is questions and answers in turn,
  so that an even number dropped from the front leaves whole exchanges.
- `LongInv`: a cache that is not dirty holds messages of its object's session,
  none if the object was made when the file did not open (`blind`), and else all
  of them when the program has no other object (`CacheHeld`); a torn
  line and a lock exist only where the backend has them. That a `SELECT` may end
  early makes `ReadsLog` a statement about beginnings of the log. It gives `ReadsLog` and
  the long-memory part of `Durable`; `SqliteOneLog` follows because the rows of
  the session in the table are its log, so that each insertion, deletion and
  look-up is one of `ConversationLog`, and a refused one changes nothing.
- `SqlInv`: ids are assigned once, to one document and in one batch
  (`IdsAssigned`); an operation under way has still to write part of its own
  batch, which nobody else knows yet, or has deleted from memory already
  (`Works`); a row differs from memory only while the operation that will write
  it is under way, or after that one failed or was lost (`Present`, `Absent`,
  `Added`); what is written and not committed belongs to the owner of the
  transaction or rides on it (`Owned`), and all of it rides once a COMMIT has
  failed (`Rides`); batches are on disk whole or not at all
  (`Committed`). What one statement does to the table and to the riders, failed or
  not, is one lemma for the three operations (`TableStep`). `Durable` and `StoreAgrees` say nothing of operations under way,
  and so are not inductive without `Works` and `Owned`: a commit makes durable
  what the database shows, and it is the owner's `Owned` that says what that is.
- `OwnInv`: with one id that the caller repeats, the table has the value of one
  of the documents, and of the last one unless something was deleted or updated.
- `SearchInv`, for `StorageTypes`: the index of FAISS, written before the lock is
  taken, has room for every document in `docs_` and for one more of each thread
  that has still to put it there. A deletion sets the count to the number of
  documents left and not to what the index holds; it is the finite set of those
  threads (`Pending`) that keeps the first from passing the second.
- `SearchesAreExact`, from `SearchAssumption` besides (embeddings are integers,
  and no document is `Nobody`). `RankInv` adds to `SearchInv` that ids are used
  once, in `docs_` and by the threads on their way there, and, while nothing
  drifted, `InStep`: the vectors of the index are those of the documents in their
  order, and of at most one more. It is what makes a label name the document it
  was given for; `SearchesRank` says that only of what a search returns. That the
  documents can be ranked at all (`RankingExists`) is by induction over their
  number, taking a best one first. A result is then `Best`: an order of the whole
  of which it is the beginning, so that nothing outside is better. Two rankings of equal scores
  are one (`SameScores`), which gives FAISS the scores of the memory store, and
  what several queries find, merged under the best score of each document,
  is again a set to rank (`MergeIs`).

**`ServersProofs`**, from `ServersAssumption` (`None` is no task, no defect of a
body, no text and nothing a client can read; `NoHooks` is no manager; the bounds
are natural numbers), for the routes `RoutesAssumption` (patterns, paths and
queries are sequences, and a pattern's literal is never the slash that separates
them) and, for the sessions, `SessionAssumption`. The theorem `ServerTypes` puts the invariants together for all types.
- `TaskInv`: at each place of a call, whether its task is in the map already
  (`TaskHeld`); a cancel is settled only while no handler runs.
- `ApiInv` and `McpInv`: httplib's flag and socket follow the worker
  (`ApiSocket`, `McpSocket`); unless calls overlap, `running` means that the
  worker serves, but for the moments in which `stop()` has ended one and not yet
  the other (`ApiRunning`, `McpRunning`).
- `RequestInv`: at each stage of a request, which manager has its call id and its
  Before, that After is still to come or came once (`EventsHeld`), and how often
  the stream was entered and whether it is open (`StreamHeld`), each with the
  excuses under which the code does less.
- `SessionInv`, for any number of requests, sessions and models. `SessionsApart`
  is about the memories; that the next entry belongs there follows from what a
  request holds while it runs (`HoldsItsOwn`), that it is the next of its turn
  from where the requests are that have entries (`TurnsSoFar`).
- `CountInv`, which only the types need: at each stage of a request, how often
  After can have come for how many runs of the stream handler (`Counted`).
- `RouteInv`, for any number of routes. `RoutesStay` compares the two answers to
  one request; each was `Decided` by some number of the first routes, the copy a
  request goes over is what the table began with (`Copied`), and the first answer
  was decided by no more routes than the second (`Earlier`). Of two beginnings of
  one list the longer finds what the shorter found (`AnswersAgree`).
- `RoutesAreChosen`, from the same `RouteInv`, for any table, requests and paths of
  any length: an answer was decided by at least the routes `known` when the
  request came. What is left is that `match_path` and `parse_query` compute what
  `RouteChosen` says of them. Cutting a path at its slashes and joining the parts
  gives back what `Plain` says of it, a slash waiting until a word follows
  (`PlainJoins`); segments that were joined are cut where they were joined
  (`CutOfJoin`); so a pattern matches exactly the paths it writes with parts of
  the path (`MatchFits`, `PartsAreWritten`), and its parameters write the path
  back (`ParamsWrite`). Of equal keys of a query the last one stays (`LastOfKey`).
- `ExchangeInv`, for any number of messages and events. What is in the body is
  the client's request or has a defect; what was asked is what the body says
  (`Given`); a stream has one frame for each event so far (`Framed`), and the
  answer is these and its end (`WrittenWell`); what was read is what the answer
  says (`Replied`), with the reason and the calls in `made`. `RequestMeant` and `ReplyMeant` are then about the codecs:
  each part and message is what it was after being written and read
  (`PartsReturn`, `MessageReturns`), and the text read from any row of frames is
  what was told in them (`FramedSays`, `StreamRead`), by the facts about
  flattening in `SequenceFacts`.

**`LibraryProofs`**, from `LibraryAssumption` and `TimerAssumption` (the bounds
are natural numbers).
- The timer, for any sets of callers and callbacks. `StoppedIsJoined` and
  `FiresTheLatest` say nothing of the moments in which `running_`, `worker_` and
  the thread disagree. `QuietInv` does: at most one call is under way, and at
  each of its points it says which of the three hold; a live thread is joinable
  or about to be assigned, and runs for the present schedule. It is an invariant
  only while no stop is early and no two overlap (`Quiet`), which is what the
  code needs and does not enforce.
- `ConfigInv`: between calls that ask for the time of the last write the
  remembered time is that of the file exactly when nobody changed it
  (`TimeKnown`); while a call is about to ask, the contents are still those it
  read or wrote (`ContentsKnown`).
- `ObserverInv`: the list, what an emission has called and what it has still to
  call are in the order of the ids, the second before the third (`InOrder`); of
  those that stayed each was called or is still to be called (`EmissionHeld`);
  a connection that holds an id is the only one, and the id is in the list unless
  somebody removed it (`OneConnection`). An emission is told nothing of later
  changes, which is why its own copy is in the invariant and not the list.
- `WindowInv`, for any number of requests, events and conversations.
  `RepliesInPlace` is about what is stored and about the settled window; the
  invariant is about the closures on their way, those the UI thread has taken
  followed by those still queued (`Due`). Always: what ends a request is in
  `Due`, in a history, or has still to be put there by the worker, once
  (`OnceInv`). While no requests overlap (`Ordered`): all closures are of one
  request, in the order prefix, events, end, idle, and the last says where the
  worker is (`ChainInv`); the bubble is there exactly from the prefix to the end,
  with the whole history above it and lines of the system below (`BubbleInv`);
  what it shows, what waits for the timer and what `Due` will add are together
  what the worker has got, which is what the last closure will store (`TextInv`);
  the question is the last turn until its answer is behind it (`QuestionInv`).
- `ChunksFit`, for any text and sizes. It is about what one call returns, so the
  invariant only adds the types (`SplitInv`); the work is in a lemma for each
  function: of the letters of a text (`Written`) none is lost, repeated or moved.
  Of the rounds that cut a text `Cuts` says that the parts so far have the
  letters before the place reached and no separator in them; of the rounds that
  join parts, that a chunk is empty, short enough or one part (`Fitting`). The
  levels of the recursion, each of which only works on what is too long, keep the
  letters one for one (`SplitLongKeeps`), and the pieces of the last are short.

**`LoopsProofs`** and **`ClientsProofs`**, from `ConfigAssumption` (the mutexes
are free when no thread has them, and there is a first configuration),
`ClientsAssumption` (the bounds are natural numbers, an answer may name a tool,
the pieces a model may sample and the stop strings are texts) and
`McpAssumption` (`None` is no status, method or text of the protocol).
The first has the steps of each client, in a module of few names; the second
makes them theorems of the scenes of `MCClients`.
- The shared client, for any number of threads and configurations. `NeverOlder`
  is about a request that has read all its fields. Of one that is on its way
  `ReadInv` says that what it has read is in order and no newer than what it
  reads next; for the URL, read without the mutex, that is what the copy will be
  when the mutex is free (`Soon`), and a torn URL means that a newer
  configuration is being assigned, or has been. `LockInv` says which thread holds
  what, and that the second copy is behind the first exactly while a thread is
  inside `set_config`.
- The runners, for any number of agents, tries and scores. `CoordInv`: what has
  been given names all agents that ran, and a run that is not over has no reason
  to be. `HarnessInv`: only the last try may have passed. `Chosen` scans the
  tries for the best; `ScanFinds` shows that it finds the earliest of the highest.
- The agents, for any number of iterations and calls. `EveryCallAnswered` is about
  the moments at which the model is asked, and says nothing of those in which half
  of an answer's calls have been run. `PairInv` does: the calls still to be run are
  the end of the last answer's, the messages behind it answer those before them,
  and `steps` followed by what is left is all calls of all answers. `TurnInv` says
  at each place which messages of its turn this invocation has put in the memory,
  whatever others add between; `TallyInv` and `DoneInv` how many ToolCalls and
  Observations were told there, and that Done is the last event of a kept turn.
- `GenerationInv`, for any pieces, stop strings, limits and number of calls of
  LlamacppLLM. `GeneratedExactly` says what a call has returned; while it samples,
  the output is all pieces, none of which ended at a stop string, and the context
  holds what earlier calls left, charged for or `unpaid`, this prompt and these
  pieces (`SamplingInv`).
  That what is cut at the end is the stop string itself rests on `SuffixIsEnd`.
- `RpcInv`, for any tools, batches and registrations meanwhile. `RepliesAnswer`
  speaks of a response that is sent; while the envelopes are dispatched, each
  reply answers the envelope in its place, and the tools that ran are as many as
  the replies that tell of a run (`AnswersInv`). Which calls ran is not in the
  state: `RunsUpTo` says that there is an increasing choice of calls in the body,
  none behind the one dispatched last, and each run extends it by one, also when
  the throw of a later envelope loses the replies. A reply that lists tools is to
  an envelope that asked for them (`Answers`), which is what excuses a 500
  (`Excuses`).

**`SequenceFacts`** holds what the proofs about logs, rows and observer lists
share: what keeping the elements of a sequence that are in a set does to an
appended element, to order, to what was kept already. `Sifted` is a recursive
function, and the facts need induction over its argument. The library's
theorem of induction takes an operator, which the provers do not instantiate;
`Induction` states it for sets of numbers instead, and follows from the least
element of each (`Least`), which is the well-foundedness of `<`. `LongTermMemory`,
`SqliteVectorStore`, `Retrieval`, `ApiRoutes`, `Broadcast`, `Agents` and
`ChatWindow` define the operator themselves, as `Only`, to which the facts apply as they stand. `Iterates`
says of other recursive functions that what a scan defines step by step exists;
`SiftedConcat`, `FlatAppend` and `FlatFirst` say what sifting and flattening do to
sequences that are joined, `SiftedLater` that what was kept behind an element
came after it.

Only model-checked:
- liveness under fairness (`AcceptedCompletes`, `CallsEnd`, `ServersEnd`,
  `TimerEnds`, `WindowReturns`, the fair part of `ExecutorSpec`), which the
  prover does not reach;
- of `Clients` `ExchangeKept` and `AnswerShown`: they are about what folds and
  the codecs of the wire compute;
- `TypesOK` of `MCClients`. The types of what the invariants above mention are
  part of them (`TypeOK` of the agents, of the shared client and of `McpRpc`,
  `GenerationInv`). `TypeOK` of each module is part of its run's `TypesOK`, except
  in `Library`, where only the timer's is stated, and proved, and in `AsyncLLM`,
  which says nothing but its properties.

## 8. Not modelled, and why

- HTTP itself: connections, redirects and time-outs of httplib are external;
  requests end or fail. Usage counts, log probabilities, `list_models` and
  `pull_model` of Ollama; samplers, model loading and chat templates of
  llama.cpp, and two calls at once on its context (a data race on everything
  it holds: any outcome, so no property).
- The scores and the tokenizer of `BM25Retriever`: arithmetic over a corpus
  that does not change. The clusters of FAISS (`nlist` > 0), which make its
  search inexact.
- Tools' argument validation, prompts, document loaders, skills: functions of
  their input, or registries filled once. Embeddings: numeric, or one request.
- Logging, time, file system, compression, string helpers: wrappers. `deps/`
  and the other examples; of the chat window the connection bar, colours and
  fonts; FLTK and md4c are external.
- Of modelled components: length functions and metadata of the splitters,
  sections by name, validation and `${VAR}` of Config, the contexts hooks
  change, undefined behaviour after the process-wide pool is destroyed
  (`thread_pool.cpp:80`; `CallsEnd` names it `TooLate`), an observer that is
  called after `unsubscribe` returned (`EmissionExact` allows it); rollbacks that
  SQLite makes by itself after an I/O error, a CREATE TABLE that fails (no
  statement would succeed then), a JSON file that opens and cannot be read to its
  end; two
  `LongTermMemory` objects on one JSON session with caches of their own
  (`ReadsLog` leaves them out).

## 9. Plan

Written in this order, the core first: thread pool and executor; the ILLM
layer over it; the vector store; the memories; the server lifecycles,
requests and tasks; agents; utilities; the proofs of section 7; then the
backends, clients and wires; the searches; the chat window; routes, sessions
and the exchange of a chat.

Next, proofs: the codecs of `ExchangeKept`, by the facts about sequences that the
other codecs needed.

Next, models: `validate_args` of tools against a reference definition; the
loader and registry of skills, with what a failing file leaves behind; the
`${VAR}` expansion of Config; an abstract vector store (a set of documents)
implemented by `SqliteVectorStore` when no transaction is lost, and an abstract
server (down, up) implemented by both lifecycles.
