--------------------------------- MODULE Secrets ---------------------------------
(***************************************************************************)
(* The secrets in the database, encrypted with APP_SECRET_KEY: those of the     *)
(* settings and the tokens of notification presets. Requests of the API write    *)
(* them with the key that its process was started with; a script re-encrypts all *)
(* of them with a new key and changes .env (run_rotation.py), or leaves that to   *)
(* the user (rotate_secret_key.py). Nothing keeps the API out meanwhile.         *)
(***************************************************************************)
EXTENDS Naturals, FiniteSets

CONSTANTS
  Fields,        \* secrets of the one row of settings
  Tokens,        \* notification presets that may exist, by their token
  Values,        \* what users enter
  Requests,
  MaxRequests, MaxRotations,  \* bounds
  Empty

Names == Fields \cup Tokens
Keys  == 0..MaxRotations

SecretsAssumption ==
  /\ IsFiniteSet(Names) /\ Fields \cap Tokens = {}
  /\ {MaxRequests, MaxRotations} \subseteq Nat
  \* "keep" and "remove" are what a form has in place of a value.
  /\ {Empty, "keep", "remove"} \cap Values = {}

VARIABLES
  stored,    \* the column of each secret: a key and a value
  presets,   \* presets that exist
  env,       \* APP_SECRET_KEY in .env
  api,       \* ... in the API's process
  request,   \* what each request has read, and the form that it was sent
  made,      \* counter for the bound
  rotation,  \* the script: its stage, what it has read, and the new key
  current,   \* history: the key of the last rotation that was committed
  saved,     \* history: what users have saved
  mixed      \* history: names saved during a rotation, or with another key than `current'

vars == <<stored, presets, env, api, request, made, rotation, current, saved, mixed>>

Secret(key, value) == [key |-> key, value |-> value]
NoSecret   == Secret(Empty, Empty)
Column     == [key : Keys, value : Values] \cup {NoSecret}
\* A field that is left out (None) keeps its secret, "" removes it.
Entries    == Values \cup {"keep", "remove"}
NoRequest  == [kind |-> "idle", name |-> Empty, form |-> Empty, seen |-> Empty]
NoRotation == [stage |-> "idle", fields |-> Empty, tokens |-> Empty, key |-> 0]

TypeOK ==
  /\ stored \in [Names -> Column] /\ presets \subseteq Tokens
  /\ env \in Keys \cup {Empty} /\ api \in Keys \cup {Empty}
  /\ \A r \in Requests :
       \/ request[r] = NoRequest
       \/ request[r].kind = "settings" /\ request[r].form \in [Fields -> Entries]
       \/ request[r].kind = "preset" /\ request[r].form \in Entries /\ request[r].name \in Tokens
  /\ made \in 0..MaxRequests
  /\ rotation.stage \in {"idle", "started", "read", "committed"} /\ rotation.key \in Keys
  /\ current \in Keys /\ saved \in [Names -> Values \cup {Empty}] /\ mixed \subseteq Names

\* Secrets of the settings that were saved before, and no presets yet.
Init ==
  /\ saved \in [Names -> Values \cup {Empty}] /\ \A t \in Tokens : saved[t] = Empty
  /\ stored = [n \in Names |-> IF saved[n] = Empty THEN NoSecret ELSE Secret(0, saved[n])]
  /\ presets = {} /\ env = 0 /\ api = 0
  /\ request = [r \in Requests |-> NoRequest] /\ made = 0
  /\ rotation = NoRotation /\ current = 0 /\ mixed = {}

-----------------------------------------------------------------------------
(* The API.                                                                *)

Idle(r)       == request[r] = NoRequest
Ends(r)       == request' = [request EXCEPT ![r] = NoRequest]
Counts        == made < MaxRequests /\ made' = made + 1
Readable(n)   == stored[n].key \in {Empty, api}

\* update_settings: every secret is decrypted for the audit's difference. One that
\* cannot be ends the request, whatever was to be saved.
SettingsBegins(r) == \E form \in [Fields -> Entries] :
  /\ Idle(r) /\ api # Empty /\ Counts
  /\ \A f \in Fields : Readable(f)
  /\ request' = [request EXCEPT ![r] = [kind |-> "settings", name |-> Empty, form |-> form,
                                        seen |-> [f \in Fields |-> stored[f]]]]
  /\ UNCHANGED <<stored, presets, env, api, rotation, current, saved, mixed>>

\* _update_secret, and the columns that the session finds changed.
Written(old, entry) ==
  CASE entry = "keep" -> old [] entry = "remove" -> NoSecret [] OTHER -> Secret(api, entry)

\* A rotation is under way, or has made the API's key an old one.
Overlaps == rotation.stage \in {"started", "read"} \/ api # current

\* The names of S are written in one transaction.
Commits(S, entry) ==
  /\ stored' = [n \in Names |-> IF n \in S THEN Written(stored[n], entry[n]) ELSE stored[n]]
  /\ saved'  = [n \in Names |-> IF n \notin S THEN saved[n]
                                ELSE IF entry[n] = "remove" THEN Empty ELSE entry[n]]
  /\ mixed'  = IF Overlaps THEN mixed \cup S ELSE mixed \ S

SettingsCommits(r) ==
  /\ request[r].kind = "settings"
  /\ LET form == request[r].form IN
     Commits({f \in Fields : form[f] # "keep" /\ ~(form[f] = "remove" /\ request[r].seen[f] = NoSecret)}, form)
  /\ Ends(r)
  /\ UNCHANGED <<presets, env, api, made, rotation, current>>

\* create_notification_preset: its token is encrypted, and no other is looked at.
CreatePreset(t) == \E entry \in Values \cup {"remove"} :
  /\ t \notin presets /\ api # Empty /\ Counts
  /\ presets' = presets \cup {t}
  /\ Commits({t}, [n \in {t} |-> entry])
  /\ UNCHANGED <<env, api, request, rotation, current>>

\* update_notification_preset: the old token is decrypted as well.
PresetBegins(r, t) == \E entry \in Entries :
  /\ Idle(r) /\ api # Empty /\ Counts
  /\ t \in presets /\ Readable(t)
  /\ request' = [request EXCEPT ![r] = [kind |-> "preset", name |-> t, form |-> entry, seen |-> stored[t]]]
  /\ UNCHANGED <<stored, presets, env, api, rotation, current, saved, mixed>>

\* A row that is gone by now fails the commit.
PresetCommits(r) ==
  /\ request[r].kind = "preset" /\ Ends(r)
  /\ LET t == request[r].name  entry == request[r].form IN
     IF t \in presets /\ entry # "keep" /\ ~(entry = "remove" /\ request[r].seen = NoSecret)
     THEN Commits({t}, [n \in {t} |-> entry])
     ELSE UNCHANGED <<stored, saved, mixed>>
  /\ UNCHANGED <<presets, env, api, made, rotation, current>>

DeletePreset(t) ==
  /\ t \in presets /\ api # Empty /\ Counts
  /\ presets' = presets \ {t}
  /\ stored' = [stored EXCEPT ![t] = NoSecret] /\ saved' = [saved EXCEPT ![t] = Empty]
  /\ mixed' = mixed \ {t}
  /\ UNCHANGED <<env, api, request, rotation, current>>

\* The container starts again, with the key that .env has; without one it does not come up.
Restart ==
  /\ api # env /\ api' = env
  /\ request' = [r \in Requests |-> NoRequest]
  /\ UNCHANGED <<stored, presets, env, made, rotation, current, saved, mixed>>

-----------------------------------------------------------------------------
(* The rotation, in a process of its own.                                   *)

\* The old key is the one of .env; the row of settings is read and re-encrypted.
RotationStarts ==
  /\ rotation = NoRotation /\ env # Empty /\ current < MaxRotations
  /\ \A f \in Fields : stored[f].key \in {Empty, env}
  /\ rotation' = [stage |-> "started", fields |-> [f \in Fields |-> stored[f]],
                  tokens |-> Empty, key |-> current + 1]
  /\ UNCHANGED <<stored, presets, env, api, request, made, current, saved, mixed>>

Reencrypted(column) == IF column = NoSecret THEN NoSecret ELSE Secret(rotation.key, column.value)

\* Mutant: the settings are committed before the presets are read.
RotationReadsCommitting ==
  /\ rotation.stage = "started"
  /\ \A t \in presets : stored[t].key \in {Empty, env}
  /\ rotation' = [rotation EXCEPT !.stage = "read", !.tokens = [t \in presets |-> stored[t]]]
  /\ stored' = [n \in Names |-> IF n \in Fields THEN Reencrypted(rotation.fields[n]) ELSE stored[n]]
  /\ UNCHANGED <<presets, env, api, request, made, current, saved, mixed>>

\* Then the presets.
RotationReads ==
  /\ rotation.stage = "started"
  /\ \A t \in presets : stored[t].key \in {Empty, env}
  /\ rotation' = [rotation EXCEPT !.stage = "read", !.tokens = [t \in presets |-> stored[t]]]
  /\ UNCHANGED <<stored, presets, env, api, request, made, current, saved, mixed>>

\* One commit: whatever the columns with a secret have become meanwhile is overwritten.
RotationCommits ==
  /\ rotation.stage = "read"
  /\ LET old == [n \in Fields \cup DOMAIN rotation.tokens |->
                   IF n \in Fields THEN rotation.fields[n] ELSE rotation.tokens[n]] IN
     /\ {n \in DOMAIN old \cap Tokens : old[n] # NoSecret} \subseteq presets
     /\ stored' = [n \in Names |-> IF n \in DOMAIN old /\ old[n] # NoSecret
                                   THEN Reencrypted(old[n]) ELSE stored[n]]
  /\ current' = rotation.key
  /\ mixed' = mixed \cup {n \in Names : stored'[n].key \notin {Empty, rotation.key}}
  /\ rotation' = [rotation EXCEPT !.stage = "committed"]
  /\ UNCHANGED <<presets, env, api, request, made, saved>>

\* By the script, or by the user.
ChangeEnv ==
  /\ rotation.stage = "committed"
  /\ env' = rotation.key /\ rotation' = NoRotation
  /\ UNCHANGED <<stored, presets, api, request, made, current, saved, mixed>>

\* A secret that it cannot decrypt, a preset that is gone, or the end of the process:
\* nothing is committed. Between the commit and the end of the write .env has the
\* old key, or is empty; the user has the new one from the script's output.
RotationFails ==
  \/ /\ rotation.stage \in {"started", "read"} /\ rotation' = NoRotation
     /\ UNCHANGED <<stored, presets, env, api, request, made, current, saved, mixed>>
  \/ /\ rotation.stage = "committed" /\ env' = Empty
     /\ UNCHANGED <<stored, presets, api, request, made, rotation, current, saved, mixed>>

Next ==
  \/ \E r \in Requests : SettingsBegins(r) \/ SettingsCommits(r) \/ PresetCommits(r)
  \/ \E r \in Requests, t \in Tokens : PresetBegins(r, t)
  \/ \E t \in Tokens : CreatePreset(t) \/ DeletePreset(t)
  \/ Restart \/ RotationStarts \/ RotationReads \/ RotationCommits \/ ChangeEnv \/ RotationFails

Spec == Init /\ [][Next]_vars

-----------------------------------------------------------------------------
(* Every secret is the one that the user saved, under one key for all of them: the *)
(* key in .env, or the new one while .env is yet to be changed. A rotation that   *)
(* fails, in whichever step, changes nothing (rotate_secret_key.py:135). What is   *)
(* saved during a rotation, or by an API that still has the old key, is excepted: *)
(* it may be lost, or unreadable after the restart.                            *)
SecretsSurvive ==
  /\ rotation.stage # "committed" => env = current
  /\ \A n \in Names \ mixed :
       stored[n] = IF saved[n] = Empty THEN NoSecret ELSE Secret(current, saved[n])
================================================================================
