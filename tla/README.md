# Formal model of the SlimFaas Python client

This directory holds TLA+ models of `slimfaas_client`
(`src/client/python/slimfaas-client/src/slimfaas_client/`). It contains the TLC
configurations that model-check the models and the TLAPS proofs about them.
`PROJECT.json` lists each component, run, mutant, mapped source line, finding,
hazard and theorem.

## 1. The system

`SlimFaasClient` (`_client.py`) is a WebSocket agent. It registers a worker with
a SlimFaas server as a virtual replica of a function. It then receives
`AsyncRequest` and `PublishEvent` frames and answers requests with
`AsyncCallback` frames. All of it runs on one asyncio event loop. The
interleaving units are the tasks, and a task yields only at an `await` that
really suspends.

| Part (spec name) | Code | State it owns |
|---|---|---|
| Reconnection Loop | `run_forever`, `close` (132-161) | `_running`, `_stop_event` |
| Registration Handshake | `_register` (209-236) | `_connection_id` |
| Connection Supervisor | `_connect_and_loop`, `_handle_message`, `_ping_loop` (188-270, 311-321) | `_ws`, the ping task |
| Dispatch Engine | `_dispatch_async_request`, `_send_callback`, `send_callback`, `on_async_request` (110-120, 167-182, 272-309) | `_async_request_handler`, one task per request |
| Publish events | `_dispatch_publish_event`, `on_publish_event` | `_publish_event_handler` |
| Protocol Codec | `_models.py`: `MessageType`, `from_payload`, `json` | none |
| Configuration | `SlimFaasClientConfig.to_register_payload` | none |

The tasks interact as follows:

- **The main task** runs `run_forever`, which calls `_connect_and_loop`, which calls `_register`. It opens a connection, sets `self._ws`, sends `Register` and waits for `RegisterResponse`. It then starts the ping task and reads frames.
  - For each `AsyncRequest` it spawns a dispatch task that captures the connection `ws`.
  - When the loop ends, its `finally` cancels the ping task and resets `self._ws`.
  - Leaving `async with` closes the transport.
  - `run_forever` retries after `reconnect_delay` on an exception and reconnects at once on a normal return. A `SlimFaasRegistrationError` stops it.
- **A dispatch task** calls the handler. It sends the handler's status, or 500 when there is no handler or the handler raises, on the connection it captured. It sends nothing when the handler returns 202.
- **The application** registers the handler, calls `close()` at any time, and calls `send_callback()` later for each request answered 202. `send_callback` uses whatever `self._ws` is at that moment.
- **The server** answers the registration, pushes frames, and may close a connection cleanly or with an error at any time.

Hard behaviours:

- A dispatch task outlives its connection.
- A late `send_callback` may meet a new connection.
- `close()` can race connection set-up.
- Exceptions leave `_connect_and_loop` from `_register`, which sits outside the `try/finally` (line 195).
- A `KeyError` from `from_payload` ends the connection (line 252).
- A clean close ends `async for` without an exception.

## 2. Modules

- **`SlimFaasClient.tla`** is the whole client together with its environment.
  - **Variables.** `running`, `phase`, `ws`, `connection_id` and `handlerSet` are the client's fields. `phase` says where the main task is suspended (`Connecting`, `AwaitResponse` in `_register`, `Active` in the receive loop, `Sleeping` in the backoff, `Stopped`, `Rejected`). `nconn` numbers connections in order of creation, with 0 standing for `None`. `links`, `inbox` and `outbox` are the transports. `task[c][e]` is the program counter and status of the dispatch task for element `e` received on connection `c`. `owed` holds the requests the application must answer through `send_callback`. `pingTask` is the live ping task. `served`, `registered` and the `from/auto/reg` fields of frames are history, read only by properties.
  - **Actions.** Each action is the code between two suspensions, with every branch as its own action (`RegisterOk`, `RegisterRejected`, `RegisterBadJson`, `RegisterIgnore`, `ActiveRequest`, ...). The mapping to lines is in `PROJECT.json` under `map`.
  - **Environment.** `ServerRespond`, `ServerSend` and `ServerClose` model the server, which is not in this repository. They are modelled from the spec:
    - the registration is answered once;
    - requests and events go only to connections answered `RegOk`;
    - noise frames (the kinds in the constant `Noise`) may arrive at any time. The runs use invalid JSON and a request missing a field, the two kinds that change the client's state. `Pong` and `PublishEvent` only pop a frame (`RegisterIgnore`, `ActiveIgnore`), so the runs leave them out;
    - each frame is delivered at most once per connection.
  - **Abstractions.**
    - A frame is reduced to its kind and element id.
    - A handler's behaviour is a nondeterministic choice among the statuses in `ReturnCodes`, 202 and an exception.
    - Register is sent in the same step as the connect, because nothing suspends between `self._ws = ws` (192) and the send (213).
    - A `PublishEvent` changes no protocol state, because its task only calls the user handler.
- **`ReconnectLoop.tla`** is the abstract specification of the Reconnection Loop (spec §4.4, §5, §9).
  - **Variables.** `loop` is `Idle`, `Running`, `Stopped` or `Rejected`. `live` is the open transport, with 0 for none. `opened` counts the transports opened so far.
  - **Actions.** `Start`, `Open` (only while none is open, numbered in order), `Lose`, and `Finish("Stopped")` or `Finish("Rejected")`, which close the transport.
  - **Mapping.** `SlimFaasClient` maps onto it with `Abs == INSTANCE ReconnectLoop WITH loop <- LoopOf, live <- LiveConn, opened <- nconn`:
    - `LoopOf` is `Running` for every phase between the entry to `run_forever` and its return;
    - `LiveConn` is `nconn` when that link is open, else 0.
- **`DispatchEngine.tla`** is the abstract specification of the Dispatch Engine (spec §4.5, §5).
  - **Variables.**
    - `delivered[c]` holds the element ids delivered on connection `c`.
    - `closed` holds the connections closed so far.
    - `stage[c][e]` is `none`, `accepted`, `deferred`, `handedOver` or `replied`.
    - `answer[c][e]` holds the statuses of the request's automatic callbacks.
  - **Actions.**
    - `Deliver` happens only on a connection that is not closed. `Disconnect` closes a connection.
    - `Accept` takes a delivered request exactly once.
    - `Defer` is the handler returning 202, and `HandOver` is the later `send_callback`.
    - `Reply(c, e, s)` answers with a non-202 `s`, only while `c` is not closed, and sets `answer` to `{s}`.
    - `ReplyLost` replies with nothing, only once `c` is closed.
  - **Mapping.** `SlimFaasClient` maps onto it with `Eng == INSTANCE DispatchEngine WITH ...`:
    - `DeliveredOf` is the set of requests in `served`;
    - `ClosedConns` is the set of links `closedOk` or `closedErr`;
    - `StageMap` is read from the task's pc, its status and `owed`;
    - `AnswerMap` is the statuses of `AutoCallbacks`;
    - `Status` is `ReturnCodes \cup {500}`.
- **`MCSlimFaasClient.tla`** gives the sets for TLC (`ReturnCodes = {200, 202}`, `ManualCodes = {200}`, the noise sets).
- **`SlimFaasClientProofs.tla`** holds the TLAPS proofs of typing and of the single open transport.
- **`SlimFaasClientRefinement.tla`** proves the refinement.
- **`SlimFaasClientDispatchProofs.tla`** proves `AutoCallbackFaithful`.
- **`SlimFaasClientDispatchRefinement.tla`** proves the refinement of `DispatchEngine`.

## 3. Runs

| Run | cfg | Expect | What it shows |
|---|---|---|---|
| safety | MCSafety | pass | `AtMostOneOpenConnection`, `AutoCallbackFaithful` |
| liveness | MCLiveness | pass | `RequestsAnswered`, `LostConnectionNoticed` under fairness, with noise frames |
| refinement | MCRefine | pass | `ImplementsReconnectLoop`: the client implements `ReconnectLoop` |
| dispatch_refinement | MCDispatchRefine | pass | `ImplementsDispatchEngine`: the client implements `DispatchEngine` |
| is_connected_stale | MCIsConnected | violation | `IsConnectedSound` fails |
| callback_unregistered | MCCallbackReg | violation | `CallbackOnlyWhenRegistered` fails |
| close_not_honoured | MCCloseStops | violation | `CloseStopsRun` fails |
| reconnect_without_delay | MCBackoff | violation | `ReconnectAfterDelay` fails |
| malformed_frame_kills_connection | MCMalformed | violation | `MalformedFrameDropped` fails |
| ws_left_after_attempt | MCWsCleared | violation | `WsClearedAfterAttempt` fails |

The properties of the passing runs:

- `AtMostOneOpenConnection`: the client never holds two open transports. This holds because every exit path closes the transport before the next connect.
- `AutoCallbackFaithful`: each dispatch task sends at most one callback. It goes on the connection the request came from, carries the status settled on, and is never sent for 202.
- `RequestsAnswered`: every request read is answered, deferred by 202, or its connection is gone.
- `LostConnectionNoticed`: a transport lost while `_register` waits or the receive loop reads always makes the main task leave `_connect_and_loop`, to retry, back off or end.
- `ImplementsReconnectLoop`: every behaviour of the client, under the mapping above, is a behaviour of `ReconnectLoop`. Malformed frames and both kinds of close are included.
- `ImplementsDispatchEngine`: every behaviour of the client is a behaviour of `DispatchEngine`. So each request is dispatched once per delivery, after its delivery. It is then either deferred and handed over, or answered by one non-202 callback on its own connection while that is open. A closed connection gets no callback. Nothing is answered both ways, and no stage is ever left backwards.

Each violation run is a finding, in `PROJECT.json`:

- `is_connected` stays true after a reconnect with the old `connection_id`. `_connection_id` is never cleared (229, 341).
- A deferred `send_callback` is sent on a new connection before its `RegisterResponse` (175, 192).
- `close()` is lost in two cases:
  - when called before `run_forever`, because line 137 sets `_running` again;
  - when called during `websockets.connect`, because `_ws` is still `None` at line 160.
- A clean close reconnects with no `reconnect_delay` (142 vs spec §4.4).
- An `AsyncRequest` missing a field raises `KeyError` in `from_payload` (`_models.py` 132). The exception leaves the receive loop (252) and the client drops a healthy connection. Spec §4.1 says a malformed frame is dropped and the loop goes on.
- `self._ws` outlives a failed registration. `_register` (195) runs before the `try/finally` that resets `_ws`. When it raises (rejection at 228, bad JSON at 223, an error close), `_ws` keeps the closed transport, for good after a rejection. `send_callback` then fails with `ConnectionClosed` on a dead transport, not with `NotConnected` as spec §4.5 says.

**Bounds.** The instance has one element and two connections.
- Two connections are the least number for which a reconnect, a stale `ws`, a late callback on another connection and a second registration happen.
- With one element, every element-indexed state is exercised. Two elements would only multiply states, because the element-indexed state is a separate slot per element.
- `MaxPings = 1` lets a ping be sent and a ping on a closed transport end the task.
- The safety run reaches 2.87M distinct states and fires every action.
- The refinement, dispatch-refinement and liveness runs leave pings out (they change no state the properties read) and reach 698K distinct states. With `MaxConn = 3` and noise, the refinement run takes more than half an hour. The refinement proof covers every `MaxConn`.

**Fairness.** The model uses `WF` on the main task and on each dispatch task. asyncio runs every ready task, and the main task and the dispatch tasks are always ready when their step is enabled. Handlers are assumed to return: the spec accepts a non-returning handler as the server's problem. The server and the application get no fairness, so they may stop at any time.

**Mutants.** Each property of a passing run is broken by a plausible bug:
- dropping the transport close (`CloseLinkKeepsOpen`);
- answering on `self._ws` instead of the captured `ws` (`TaskSendCurrentWs`);
- returning silently when no handler is registered (`TaskStartSilent`);
- leaving the receive loop without closing the transport (`LeaveActiveKeepsLink`, for the refinement);
- retrying `recv` on a cleanly closed stream instead of leaving the loop (`ActiveStreamEndsRetryRecv`, for `LostConnectionNoticed`);
- swallowing a handler exception without sending the 500 callback (`HandlerRaisesSilent`, for `ImplementsDispatchEngine`). The request is then settled with no reply while its connection is still open, which no engine step allows.

## 4. Proofs

All five theorems hold for every value of the constants that satisfies
`ConstAssumption`: any number of connections, elements, status codes and noise kinds.

- **`TypeCorrect`** (`SlimFaasClientProofs`): `Spec => []TypeOK`. No run checks `TypeOK`: it is the typing lemma the other proofs rest on, and the only bugs that could break it are not Python bugs.
  - `TypeOK` alone is not inductive. It allows `nconn = 0`, and then `inbox[nconn]`, which the main task reads, is undefined.
  - The inductive invariant is `TypeInv == BoolsOK /\ DataOK /\ Live`. `Live` says the main task is in `_register` or the receive loop only on an opened connection.
  - There is one lemma per operation. Each first extracts the action's effect as equations with Zenon, then proves the types with SMT.
  - `TypeOK` is split into Boolean flags and data, because the SMT encoding handles Boolean-valued variables badly.
- **`OneOpenConnection`** (`SlimFaasClientProofs`): `Spec => []AtMostOneOpenConnection`.
  - The strengthening is `OpenInv`: an open transport is the last one opened (`nconn`), and only while the phase is `AwaitResponse` or `Active`.
  - `Connect` happens only in `Connecting`, when nothing is open.
  - Every step that leaves those phases closes link `nconn` (lemma `LeaveOpenInv`), or finds it closed already.
  - `close()` and the server only close links.
- **`Refinement`** (`SlimFaasClientRefinement`): `Spec => ImplementsReconnectLoop`.
  - Initial states map to `Abs!Init`.
  - Under `SafeInv == TypeInv /\ OpenInv`, every step maps to an abstract step or a stutter:
    - `RunForever` is `Start`;
    - `Connect` is `Open`, because `OpenInv` says nothing is open in `Connecting`;
    - a step that leaves `_connect_and_loop` is `Lose`, `Finish("Stopped")` or a stutter, because it closes link `nconn` or finds it closed;
    - `RegisterRejected` is `Finish("Rejected")`;
    - `close()` and a server close are `Lose` or a stutter;
    - every other step leaves the phase class, `nconn` and the links alone.
  - `OpenInv` is what makes `LiveConn` the only open link. Without it a close of an older link could not be mapped.
- **`DispatchFaithful`** (`SlimFaasClientDispatchProofs`): `Spec => []AutoCallbackFaithful`.
  - `AutoCallbackFaithful` is not inductive. A request still unread, or a task that has not sent yet, could meet a callback already on the wire.
  - The strengthening `TaskInv` follows each task from its request frame to its callback:
    - before `send`, its connection carries no automatic callback for its element;
    - in `send` its status is not 202;
    - after `send` there is at most one such callback, with the task's status and `from = c`;
    - a task exists only for a request the server sent on that connection;
    - while the request is unread, no task exists.
  - `InboxInv` says the unread frames of a connection were sent on it, each once. This is why reading a request always finds its task slot empty.
  - One lemma per shape of step: quiet steps, reads, task creation, task moves, `TaskSend`, other appends, `Connect`, server pushes.

- **`DispatchRefinement`** (`SlimFaasClientDispatchRefinement`): `Spec => ImplementsDispatchEngine`.
  - Initial states map to `Eng!Init`: nothing has been delivered, closed, accepted or answered.
  - The invariant is `RefInv == DispatchInv /\ FreshInv /\ StatusInv /\ OwedInv`. `TLC` checks the three new conjuncts on the safety instance, and the proof shows each is inductive:
    - `FreshInv`: a connection not yet returned by `websockets.connect` is `none`, with no frames sent on it. Without it, `Connect` could not be a stutter, and a send that fails on a closed link could not be told from one on a link never opened;
    - `StatusInv`: a task in `send` or `done` holds a handler's status or 500. This is what makes the settled status a legal `Reply` status;
    - `OwedInv`: `owed` holds only tasks that ended with 202. This is what makes `send_callback` a `HandOver` from `deferred`.
  - Every step maps to an engine step or a stutter, with one lemma per shape of step:
    - `ServerPush` of a request is `Deliver`;
    - a closing link (`close()`, the server, or the main task leaving an attempt) is `Disconnect`;
    - `ActiveRequest` is `Accept`. `InboxInv` and `TaskOK` say the request was delivered and its slot is empty;
    - `HandlerReturns` with 202 is `Defer`;
    - `TaskSend` is `Reply` on an open link and `ReplyLost` on a closed one;
    - `SendCallback` is `HandOver`;
    - the other task moves, `Connect`, pings and the remaining main-task steps are stutters.

Only TLC checks the following:
- the liveness properties: TLAPS does not reason about `ENABLED` and fairness here;
- the six violations.

## 5. Not modelled

- Codec data conversion: base64 bodies, headers, query, `to_register_payload`.
- Logging.
- The publish-event handler slot.
- `__aenter__`/`__aexit__`. They only set `_running` and call `close()`.
- Timers. The ping interval and the backoff are steps, not durations. Two things are out of reach:
  - a half-open connection that a failed ping should reveal (spec §4.3);
  - how long `close()` waits for the backoff sleep to finish (line 154). The sleep is not interrupted, but it does end.
- Unbounded task creation.

## 6. Plan for later work

1. Add a violation run for the keepalive divergence (§4.3). This needs a half-open link state.
