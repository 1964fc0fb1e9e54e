---------------------------- MODULE Authorization ----------------------------
(***************************************************************************)
(* authorization.Service (src/unnamed/part_000): the token holder that     *)
(* every event request is checked against.  NewService builds it from      *)
(* server.auth; when that names a file:// or http(s):// resource, the      *)
(* holder is instead filled by a watcher goroutine (resources.Watch, not   *)
(* in src/) which calls updateTokens with the first payload and with every *)
(* changed one, concurrently with the rest of NewService.                  *)
(*                                                                         *)
(* A holder is kept as the set of token ids it serves; the maps from       *)
(* secrets to origins that reformat builds follow from it.  NoHolder is    *)
(* the nil *TokensHolder, which IsEmpty reports as empty.                  *)
(***************************************************************************)
EXTENDS FiniteSets

CONSTANTS
  TokenSets,   \* token id sets a configuration or a payload may hold
  Payloads,    \* payloads the watched resource may serve
  Malformed,   \* a payload parseFromBytes rejects
  DefaultId,   \* "defaultid", the id of the generated token
  NoHolder,    \* tokensHolder == nil
  NoPayload    \* the watcher has not loaded anything yet

ASSUME Payloads \subseteq TokenSets \cup {Malformed}

\* What server.auth and server.auth_reload_sec select:
\*   "noReload" : auth_reload_sec is 0
\*   "tokens"   : a token list, an inline JSON object, one plain token or an
\*                array of tokens, all turned into a holder at once
\*   "watch"    : one http://, https:// or file:// string
\*   "badInline": one "{...}" string that does not parse
Modes == {"noReload", "tokens", "watch", "badInline"}

VARIABLES
  mode,      \* the configured mode
  holder,    \* Service.tokensHolder: NoHolder or a set of token ids
  pc,        \* NewService: "start", "check", "generate", "done", "failed"
  watching,  \* the watcher goroutine has been started
  remote,    \* the payload the watched resource serves
  loaded     \* the last payload the watcher loaded (NoPayload at first)

vars == <<mode, holder, pc, watching, remote, loaded>>

IsEmpty(h) == h = NoHolder \/ h = {}

\* NewService up to the emptiness check.  A zero reload interval and an
\* inline JSON that does not parse return an error; "watch" starts the
\* watcher and leaves the holder nil.
NewServiceStart ==
  /\ pc = "start"
  /\ \/ mode \in {"noReload", "badInline"} /\ pc' = "failed" /\ UNCHANGED <<holder, watching>>
     \/ mode = "tokens" /\ pc' = "check" /\ \E t \in TokenSets : holder' = t
                        /\ UNCHANGED watching
     \/ mode = "watch" /\ pc' = "check" /\ watching' = TRUE /\ UNCHANGED holder
  /\ UNCHANGED <<mode, remote, loaded>>

\* if service.tokensHolder.IsEmpty(): read without the lock.
CheckEmpty ==
  /\ pc = "check"
  /\ pc' = IF IsEmpty(holder) THEN "generate" ELSE "done"
  /\ UNCHANGED <<mode, holder, watching, remote, loaded>>

\* The generated token replaces the holder, without the lock, whatever the
\* watcher may have stored since the check.
WriteGenerated ==
  /\ pc = "generate"
  /\ holder' = {DefaultId}
  /\ pc' = "done"
  /\ UNCHANGED <<mode, watching, remote, loaded>>

\* The watcher loads a payload it has not loaded yet and hands it to
\* updateTokens: a payload that does not parse is logged and dropped,
\* otherwise the holder is replaced under the lock.
UpdateTokens ==
  /\ watching
  /\ remote # loaded
  /\ loaded' = remote
  /\ holder' = IF remote = Malformed THEN holder ELSE remote
  /\ UNCHANGED <<mode, pc, watching, remote>>

\* The watched file or endpoint changes.
ChangeRemote ==
  /\ \E p \in Payloads \ {remote} : remote' = p
  /\ UNCHANGED <<mode, holder, pc, watching, loaded>>

Init ==
  /\ mode \in Modes
  /\ holder = NoHolder
  /\ pc = "start"
  /\ watching = FALSE
  /\ remote \in Payloads
  /\ loaded = NoPayload

Next ==
  \/ NewServiceStart \/ CheckEmpty \/ WriteGenerated
  \/ UpdateTokens \/ ChangeRemote

Spec == Init /\ [][Next]_vars

-----------------------------------------------------------------------------
(* Properties                                                              *)
(***************************************************************************)

\* The tokens served are those of the last well-formed, non-empty payload
\* the watcher loaded: the watcher reloads only on change, so a holder
\* overwritten after a load stays stale until the resource changes again.
WatchedTokensCurrent ==
  pc = "done" /\ loaded \in TokenSets \ {{}} => holder = loaded

=============================================================================
