------------------------------- MODULE Secrets -------------------------------
(***************************************************************************)
(* Where the two secrets of the service come from and whether they survive *)
(* a restart: src/src/config.rs.                                           *)
(*                                                                         *)
(* Two processes of one account share the keychain and the files: the      *)
(* server, which resolves its secrets at start and persists those it had   *)
(* to generate, and `la-keys init`.  Resolving is one step; every command  *)
(* to the keychain and every write of a file is a step of its own, after   *)
(* which either process may be stopped.                                    *)
(*                                                                         *)
(* The value of a secret is the number of the pair it was generated with,  *)
(* or Given if it comes from the environment.                              *)
(***************************************************************************)
EXTENDS Naturals

CONSTANTS
    Backends,       \* secret backends of the platform: "keychain", "file"
    Environments,   \* what LARC_HMAC_PEPPER and LARC_JWT_SECRET may be at a start
    None,           \* nothing there, or nothing that parses
    TooShort,       \* a LARC_JWT_SECRET of less than 32 characters
    MaxPairs        \* bound on the pairs ever generated (model checking only)

Given == 0
Pairs == 1 .. MaxPairs
Accounts == {"pepper", "jwt"}
Processes == {"server", "init"}

ASSUME BackendsAssumption == "file" \in Backends /\ Backends \subseteq {"keychain", "file"}
ASSUME EnvironmentsAssumption ==
    Environments \subseteq [pepper : {None, Given}, jwt : {None, Given, TooShort}]
ASSUME BoundAssumption == MaxPairs \in Nat
ASSUME NullAssumption ==
    /\ None \notin Nat \cup {"keychain", "file", TooShort} \cup [Accounts -> Nat \cup {TooShort}]
    /\ TooShort \notin Nat

VARIABLES
    keychain,   \* the two entries of the keychain
    file,       \* secrets.toml: the pair in it
    settings,   \* config.toml: the backend in it
    hashed,     \* peppers the stored keys were hashed with
    at,         \* where each process is
    pair,       \* the pair each process generated last
    backend,    \* the backend each process persists to
    env,        \* the environment of the last start
    running,    \* the secrets the server resolved
    source,     \* where it has them from
    pairs,      \* number of pairs generated
    overtaken,  \* history: whether others wrote since each process read
    refused,    \* history: whether the keychain ever refused something
    excused     \* history: whether the operator did what may cost stored keys

disk == <<keychain, file, settings>>
server == <<hashed, env, running, source>>
vars == <<disk, server, at, pair, backend, pairs, overtaken, refused, excused>>

-----------------------------------------------------------------------------

Both(n) == [a \in Accounts |-> n]

\* load_from_keychain: both entries or nothing.  A locked keychain gives none.
FromKeychain(unlocked) ==
    IF unlocked /\ \A a \in Accounts : keychain[a] # None THEN keychain ELSE None

\* load_secrets_file
FromFile == IF file = None THEN None ELSE Both(file)

\* load_settings, with the backend that is taken for granted
Preferred == IF settings = None THEN "file" ELSE settings

FirstOf(s, t) == IF s # None THEN s ELSE t

\* Seeded fault: the configured backend only.
StoredThereOnly(unlocked) ==
    IF Preferred = "keychain" THEN FromKeychain(unlocked) ELSE FromFile

\* The configured backend, then the other one.
Stored(unlocked) ==
    IF Preferred = "keychain"
    THEN FirstOf(FromKeychain(unlocked), FromFile)
    ELSE FirstOf(FromFile, FromKeychain(unlocked))

\* Seeded fault: a variable that is not set overrides too.
OverriddenByAll(e, stored) == e

\* Environment variables override what is stored, one by one.
Overridden(e, stored) == [a \in Accounts |-> FirstOf(e[a], stored[a])]

FirstStep(b) == IF b = "keychain" THEN "delete pepper" ELSE "open file"
DeleteStep == [pepper |-> "delete pepper", jwt |-> "delete jwt"]
AddStep == [pepper |-> "add pepper", jwt |-> "add jwt"]
Saving == {"delete pepper", "add pepper", "delete jwt", "add jwt", "open file", "write file"}

\* Where a process goes when its secrets are persisted, and when they are not.
Saved == [server |-> "ready", init |-> "settings"]
Failed == [server |-> "ready", init |-> "idle"]

Off == [server |-> "down", init |-> "idle"]
Other(p) == IF p = "server" THEN "init" ELSE "server"

-----------------------------------------------------------------------------

Init ==
    /\ keychain = Both(None) /\ file = None /\ settings = None
    /\ hashed = {} /\ env = Both(None) /\ running = None /\ source = "none"
    /\ at = Off
    /\ pair = [p \in Processes |-> None]
    /\ backend = [p \in Processes |-> "file"]
    /\ pairs = 0
    /\ overtaken = [p \in Processes |-> FALSE]
    /\ refused = FALSE /\ excused = FALSE

\* Keys are stored, or may be before the next start.
InUse == at["server"] # "down" \/ hashed # {}

\* p has written to the disk: the other process has not seen it.  Whatever init
\* writes once the server was started may cost the keys stored by then.
Wrote(p) ==
    /\ overtaken' = [overtaken EXCEPT ![Other(p)] = TRUE]
    /\ excused' = (excused \/ (p = "init" /\ InUse))

Go(p, place) == at' = [at EXCEPT ![p] = place]

\* generate_random_hex, twice
Generate(p, b) ==
    /\ pairs < MaxPairs
    /\ pairs' = pairs + 1
    /\ pair' = [pair EXCEPT ![p] = pairs + 1]
    /\ backend' = [backend EXCEPT ![p] = b]
    /\ Go(p, FirstStep(b))

\* The operator changed the pepper.
Changed(e) == hashed # {} /\ e["pepper"] # env["pepper"]
Locked(unlocked) == ~unlocked /\ \E a \in Accounts : keychain[a] # None

StartCommon(e) ==
    /\ at["server"] = "down"
    /\ env' = e
    /\ overtaken' = [overtaken EXCEPT !["server"] = FALSE]
    /\ UNCHANGED <<disk, hashed>>

\* from_env: with both variables set nothing else is looked at,
StartGiven(e) ==
    /\ StartCommon(e)
    /\ \A a \in Accounts : e[a] # None
    /\ running' = e /\ source' = "environment" /\ Go("server", "ready")
    /\ excused' = (excused \/ Changed(e))
    /\ UNCHANGED <<pair, backend, pairs, refused>>

\* with stored secrets a variable overrides its secret,
StartStored(e, unlocked) ==
    /\ StartCommon(e)
    /\ \E a \in Accounts : e[a] = None
    /\ Stored(unlocked) # None
    /\ running' = Overridden(e, Stored(unlocked))
    /\ source' = "stored" /\ Go("server", "ready")
    /\ refused' = (refused \/ Locked(unlocked))
    /\ excused' = (excused \/ Changed(e))
    /\ UNCHANGED <<pair, backend, pairs>>

\* and otherwise both are generated, a variable that is set notwithstanding.  (In
\* production the start fails here, with nothing changed.)
StartGenerates(e, unlocked) ==
    /\ StartCommon(e)
    /\ \E a \in Accounts : e[a] = None
    /\ Stored(unlocked) = None
    /\ Generate("server", Preferred)
    /\ running' = Both(pairs + 1) /\ source' = "unsaved"
    /\ refused' = (refused \/ Locked(unlocked))
    /\ excused' = (excused \/ Changed(e) \/ e["pepper"] # None)

\* run_init, unless initialized: keychain or file, as the platform has it and the
\* user chooses.
InitCommand(b) ==
    /\ at["init"] = "idle"
    /\ settings = None
    /\ Generate("init", b)
    /\ overtaken' = [overtaken EXCEPT !["init"] = FALSE]
    /\ UNCHANGED <<disk, server, refused, excused>>

-----------------------------------------------------------------------------

\* keychain_set: the entry is deleted first; the outcome is ignored ...
Delete(p, a) ==
    /\ at[p] = DeleteStep[a]
    /\ keychain' \in {keychain, [keychain EXCEPT ![a] = None]}
    /\ Wrote(p)
    /\ refused' = (refused \/ keychain'[a] # None)
    /\ Go(p, AddStep[a])
    /\ UNCHANGED <<file, settings, server, pair, backend, pairs>>

MarkSaved(p) == source' = IF p = "server" THEN "saved" ELSE source

\* ... and added anew, which an entry that is still there prevents.
Add(p, a) ==
    /\ at[p] = AddStep[a]
    /\ keychain[a] = None
    /\ keychain' = [keychain EXCEPT ![a] = pair[p]]
    /\ Wrote(p)
    /\ IF a = "pepper" THEN Go(p, "delete jwt") /\ UNCHANGED source
                       ELSE Go(p, Saved[p]) /\ MarkSaved(p)
    /\ UNCHANGED <<file, settings, hashed, env, running, pair, backend, pairs, refused>>

\* A secret that could not be added: both go to the file instead.
AddFails(p, a) ==
    /\ at[p] = AddStep[a]
    /\ Go(p, "open file")
    /\ UNCHANGED <<disk, server, pair, backend, pairs, overtaken, refused, excused>>

\* write_secrets_file truncates the file before it writes it.
OpenFile(p) ==
    /\ at[p] = "open file"
    /\ file' = None
    /\ Wrote(p)
    /\ Go(p, "write file")
    /\ UNCHANGED <<keychain, settings, server, pair, backend, pairs, refused>>

WriteFile(p) ==
    /\ at[p] = "write file"
    /\ file' = pair[p]
    /\ Wrote(p)
    /\ Go(p, Saved[p]) /\ MarkSaved(p)
    /\ UNCHANGED <<keychain, settings, hashed, env, running, pair, backend, pairs, refused>>

\* Seeded fault: a failure is taken for success.
FileFailsUnnoticed(p) ==
    /\ at[p] \in {"open file", "write file"}
    /\ Wrote(p)
    /\ Go(p, Saved[p]) /\ MarkSaved(p)
    /\ UNCHANGED <<disk, hashed, env, running, pair, backend, pairs, refused>>

\* It may fail in all its parts, at last in setting the permissions.  The server
\* warns that its secrets are ephemeral; init gives up.
FileFails(p) ==
    /\ at[p] \in {"open file", "write file"}
    /\ file' \in {file} \cup (IF at[p] = "write file" THEN {pair[p]} ELSE {})
    /\ Wrote(p)
    /\ Go(p, Failed[p])
    /\ UNCHANGED <<keychain, settings, server, pair, backend, pairs, refused>>

\* Seeded fault: the backend that was chosen is not recorded.
SaveDefaultSettings ==
    /\ at["init"] = "settings"
    /\ settings' = "file" /\ Go("init", "done")
    /\ Wrote("init")
    /\ UNCHANGED <<keychain, file, server, pair, backend, pairs, refused>>

\* save_settings, the last step of init; it too may fail.
SaveSettings ==
    /\ at["init"] = "settings"
    /\ \/ settings' = backend["init"] /\ Go("init", "done")
       \/ settings' = None /\ Go("init", "idle")
    /\ Wrote("init")
    /\ UNCHANGED <<keychain, file, server, pair, backend, pairs, refused>>

-----------------------------------------------------------------------------

\* The rest of from_env and of the start.  A short LARC_JWT_SECRET is refused
\* only now.
Serve ==
    /\ at["server"] = "ready"
    /\ env["jwt"] # TooShort
    /\ Go("server", "up")
    /\ UNCHANGED <<disk, server, pair, backend, pairs, overtaken, refused, excused>>

\* A key is created: its hash is good for this pepper alone.
StoreKey ==
    /\ at["server"] = "up"
    /\ hashed' = hashed \cup {running["pepper"]}
    /\ excused' = (excused \/ source = "unsaved")
    /\ UNCHANGED <<disk, env, running, source, at, pair, backend, pairs, overtaken, refused>>

\* Stopped, crashed, or given up for another reason, at any point.
Stop(p) ==
    /\ at[p] # Off[p] /\ at[p] # "done"
    /\ Go(p, Off[p])
    /\ UNCHANGED <<disk, server, pair, backend, pairs, overtaken, refused, excused>>

\* "To re-initialize, delete ~/.larc/config.toml and run again."
DeleteSettings ==
    /\ at["init"] = "done"
    /\ settings' = None
    /\ Go("init", "idle")
    /\ overtaken' = [p \in Processes |-> TRUE]
    /\ excused' = (excused \/ InUse)
    /\ UNCHANGED <<keychain, file, server, pair, backend, pairs, refused>>

Next ==
    \/ \E e \in Environments : StartGiven(e)
    \/ \E e \in Environments, unlocked \in BOOLEAN :
          StartStored(e, unlocked) \/ StartGenerates(e, unlocked)
    \/ \E b \in Backends : InitCommand(b)
    \/ \E p \in Processes, a \in Accounts : Delete(p, a) \/ Add(p, a) \/ AddFails(p, a)
    \/ \E p \in Processes : OpenFile(p) \/ WriteFile(p) \/ FileFails(p) \/ Stop(p)
    \/ SaveSettings \/ Serve \/ StoreKey \/ DeleteSettings

Spec == Init /\ [][Next]_vars

-----------------------------------------------------------------------------

Values == Pairs \cup {Given, TooShort}

(* Every variable keeps its type; in particular a file never holds secrets of two
   origins, and only generated secrets are ever persisted. *)
TypeOK ==
    /\ keychain \in [Accounts -> Pairs \cup {None}]
    /\ file \in Pairs \cup {None}
    /\ settings \in Backends \cup {None}
    /\ hashed \subseteq Pairs \cup {Given}
    /\ at \in [server : Saving \cup {"down", "ready", "up"},
               init : Saving \cup {"idle", "settings", "done"}]
    /\ pair \in [Processes -> Pairs \cup {None}]
    /\ backend \in [Processes -> Backends]
    /\ env \in Environments \cup {Both(None)}
    /\ running \in [Accounts -> Values] \cup {None}
    /\ source \in {"none", "environment", "stored", "unsaved", "saved"}
    /\ pairs \in 0 .. MaxPairs
    /\ overtaken \in [Processes -> BOOLEAN]
    /\ refused \in BOOLEAN /\ excused \in BOOLEAN

(* What the server says it saved, or found, is what a restart finds: unless it
   warned that its secrets are ephemeral, somebody else wrote since it looked, or the
   keychain ever refused to give or delete an entry, resolving again gives the
   secrets it runs with.  A keychain that takes the first secret and not the second,
   and the fallback to the other backend, must not come between. *)
SavedIsFound ==
    at["server"] \in {"ready", "up"} /\ ~overtaken["server"] /\ ~refused =>
        /\ source = "saved" => Stored(TRUE) = running
        /\ source = "stored" => Overridden(env, Stored(TRUE)) = running

(* Once init says "Setup complete", the secrets it generated are those a start
   finds (and, without variables, works with), whichever backend took them and
   whatever lies in the other one: unless a server wrote since init began, or the
   keychain ever refused to give or delete an entry. *)
SetupIsFound ==
    at["init"] = "done" /\ ~overtaken["init"] /\ ~refused =>
        Stored(TRUE) = Both(pair["init"])

(* The stored keys outlive restarts: a server that is up has the pepper all of
   them were hashed with, however often it or init was stopped, wherever they were
   in writing and whatever failed, unless the keychain refused to give or to
   delete an entry, keys were stored under secrets the server had warned about,
   the operator changed the variable or set up again, or the variable was
   ignored (EnvironmentWins). *)
KeysSurvive ==
    at["server"] = "up" /\ ~refused /\ ~excused => hashed \subseteq {running["pepper"]}

(* The environment comes first in the resolution order: a pepper that is set in
   it is the one the server uses. *)
EnvironmentWins ==
    at["server"] = "up" /\ env["pepper"] # None => running["pepper"] = env["pepper"]

=============================================================================
