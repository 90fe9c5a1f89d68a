---------------------------- MODULE SecretsProofs ----------------------------
(***************************************************************************)
(* Proofs about Secrets, for any number of pairs and every set of          *)
(* backends and environments: what is said to be saved is found again, and *)
(* stored keys outlive restarts, wherever the processes were stopped and   *)
(* whatever failed.                                                        *)
(***************************************************************************)
EXTENDS Secrets, TLAPS

(* A process that saves has generated a pair; a server that runs has its secrets and
   knows where they are from. *)
Typed ==
    /\ TypeOK
    /\ \A p \in Processes : at[p] \in Saving => pair[p] \in Pairs
    /\ at["init"] \in {"settings", "done"} => pair["init"] \in Pairs
    /\ at["server"] # "down" =>
          /\ running \in [pepper : Pairs \cup {Given}, jwt : Values]
          /\ source # "none"
          /\ source = "environment" => running = env
          /\ at["server"] \in Saving => source = "unsaved" /\ running = Both(pair["server"])

Incomplete == \E a \in Accounts : keychain[a] = None

(* How far p has come with the keychain. *)
Progress(p) ==
    /\ at[p] = "add pepper" => keychain["pepper"] = None
    /\ at[p] \in {"delete jwt", "add jwt"} => keychain["pepper"] = pair[p]
    /\ at[p] = "add jwt" => keychain["jwt"] = None

(* The server saves what it found nowhere: until it is done, what lies in the other
   backend cannot answer before it. *)
ServerSaves ==
    ~overtaken["server"] /\ ~refused =>
        /\ Progress("server")
        /\ at["server"] \in Saving \ {"open file", "write file"} => file = None
        /\ at["server"] \in {"open file", "write file"} => Incomplete
        /\ at["server"] \in {"ready", "up"} =>
              /\ source = "saved" => Stored(TRUE) = running
              /\ source = "stored" => /\ Stored(TRUE) # None
                                      /\ Overridden(env, Stored(TRUE)) = running

(* init saves over whatever there is: what it does not replace is not looked at first. *)
InitSaves ==
    ~overtaken["init"] /\ ~refused =>
        /\ Progress("init")
        /\ at["init"] \in Saving \ {"open file", "write file"} => backend["init"] = "keychain"
        /\ at["init"] \in {"open file", "write file"} => backend["init"] = "file" \/ Incomplete
        /\ at["init"] = "settings" =>
              \/ backend["init"] = "keychain" /\ keychain = Both(pair["init"])
              \/ file = pair["init"] /\ (backend["init"] = "file" \/ Incomplete)
        /\ at["init"] = "done" => settings # None /\ Stored(TRUE) = Both(pair["init"])

(* What overtakes a server that runs, or has it generate in spite of the variable, is excused. *)
Excused ==
    at["server"] # "down" /\ ~excused =>
        /\ ~overtaken["server"]
        /\ source \in {"saved", "unsaved"} => env["pepper"] = None

(* The pepper of the stored keys is the one the next start finds. *)
HashedIsFound ==
    ~refused /\ ~excused =>
        /\ hashed # {} =>
              \/ env["pepper"] = Given /\ hashed = {Given}
              \/ /\ env["pepper"] = None /\ Stored(TRUE) # None
                 /\ hashed = {Stored(TRUE)["pepper"]}
        /\ at["server"] \in Saving => hashed = {}
        /\ at["server"] \in {"ready", "up"} => hashed \subseteq {running["pepper"]}

Inductive == Typed /\ ServerSaves /\ InitSaves /\ Excused /\ HashedIsFound

-----------------------------------------------------------------------------

(* What a start may find in the environment. *)
LEMMA EnvironmentType ==
    ASSUME NEW e \in Environments
    PROVE  /\ e \in [pepper : {None, Given}, jwt : {None, Given, TooShort}]
           /\ e["pepper"] \in {None, Given} /\ e["jwt"] \in {None, Given, TooShort}
  BY EnvironmentsAssumption

(* A pair has one number in both places. *)
LEMMA BothType ==
    ASSUME NEW n
    PROVE  /\ Both(n)["pepper"] = n /\ Both(n)["jwt"] = n
           /\ \A S : n \in S => Both(n) \in [Accounts -> S]
           /\ \A S, T : n \in S /\ n \in T => Both(n) \in [pepper : S, jwt : T]
  BY DEF Both, Accounts

(* What a start finds are generated secrets. *)
LEMMA StoredType ==
    ASSUME TypeOK, NEW unlocked \in BOOLEAN, Stored(unlocked) # None
    PROVE  Stored(unlocked) \in [Accounts -> Pairs]
<1>1. FromFile = None \/ FromFile \in [Accounts -> Pairs]
  BY BothType DEF FromFile, TypeOK
<1>2. FromKeychain(unlocked) = None \/ FromKeychain(unlocked) \in [Accounts -> Pairs]
  BY DEF FromKeychain, TypeOK
<1> QED BY <1>1, <1>2 DEF Stored, FirstOf

(* Which of the two backends answers a start. *)
Finds ==
    /\ file # None /\ Incomplete => Stored(TRUE) = Both(file)
    /\ file = None /\ ~Incomplete => Stored(TRUE) = keychain
    /\ file = None /\ Incomplete <=> Stored(TRUE) = None
    /\ file # None /\ Preferred = "file" => Stored(TRUE) = Both(file)
    /\ ~Incomplete /\ Preferred = "keychain" => Stored(TRUE) = keychain

LEMMA StoredIs == TypeOK => Finds
<1> SUFFICES ASSUME TypeOK PROVE Finds
  OBVIOUS
<1>1. file # None => FromFile = Both(file) /\ FromFile # None
  <2>1. file # None => Both(file) \in [Accounts -> Nat \cup {TooShort}]
    BY BothType DEF TypeOK, Pairs
  <2> QED BY <2>1, NullAssumption DEF FromFile
<1>2. file = None => FromFile = None
  BY DEF FromFile
<1>3. ~Incomplete => FromKeychain(TRUE) = keychain /\ keychain # None
  <2>1. ~Incomplete => keychain \in [Accounts -> Nat \cup {TooShort}]
    BY DEF TypeOK, Incomplete, Pairs
  <2> QED BY <2>1, NullAssumption DEF FromKeychain, Incomplete
<1>4. Incomplete => FromKeychain(TRUE) = None
  BY DEF FromKeychain, Incomplete
<1> QED BY <1>1, <1>2, <1>3, <1>4 DEF Finds, Stored, FirstOf

(* The same of the next state. *)
LEMMA StoredNext == TypeOK' => Finds'
  BY StoredIs, PTL

(* A keychain that is locked and has nothing changes nothing. *)
LEMMA LockedOrStored ==
    ASSUME NEW unlocked \in BOOLEAN, ~Locked(unlocked)
    PROVE  Stored(unlocked) = Stored(TRUE)
<1>1. FromKeychain(unlocked) = FromKeychain(TRUE)
  BY DEF FromKeychain, Locked, Accounts
<1> QED BY <1>1 DEF Stored

(* A variable overrides its secret; a pepper is never too short. *)
LEMMA OverriddenType ==
    ASSUME NEW e \in Environments, NEW s \in [Accounts -> Pairs]
    PROVE  /\ Overridden(e, s) \in [pepper : Pairs \cup {Given}, jwt : Values]
           /\ Overridden(e, s)["pepper"] = IF e["pepper"] = None THEN s["pepper"] ELSE Given
           /\ e["pepper"] # None => e["pepper"] = Given
<1>1. e["pepper"] \in {None, Given} /\ e["jwt"] \in {None, Given, TooShort}
  BY EnvironmentType
<1>2. s["pepper"] \in Pairs /\ s["jwt"] \in Pairs
  BY DEF Accounts
<1>3. Overridden(e, s) = [pepper |-> FirstOf(e["pepper"], s["pepper"]),
                          jwt |-> FirstOf(e["jwt"], s["jwt"])]
  BY DEF Overridden, Accounts
<1>4. FirstOf(e["pepper"], s["pepper"]) \in Pairs \cup {Given} /\ FirstOf(e["jwt"], s["jwt"]) \in Values
  BY <1>1, <1>2 DEF FirstOf, Values
<1>5. FirstOf(e["pepper"], s["pepper"]) = IF e["pepper"] = None THEN s["pepper"] ELSE Given
  BY <1>1 DEF FirstOf
<1> QED BY <1>1, <1>3, <1>4, <1>5

-----------------------------------------------------------------------------

(* The places of the processes. *)
At == [server : Saving \cup {"down", "ready", "up"},
       init : Saving \cup {"idle", "settings", "done"}]

(* The places, by process and by entry. *)
LEMMA Places ==
    /\ \A a \in Accounts :
          /\ DeleteStep[a] = IF a = "pepper" THEN "delete pepper" ELSE "delete jwt"
          /\ AddStep[a] = IF a = "pepper" THEN "add pepper" ELSE "add jwt"
          /\ DeleteStep[a] \in Saving /\ AddStep[a] \in Saving
    /\ \A p \in Processes :
          /\ Saved[p] = IF p = "server" THEN "ready" ELSE "settings"
          /\ Failed[p] = IF p = "server" THEN "ready" ELSE "idle"
          /\ Off[p] = IF p = "server" THEN "down" ELSE "idle"
          /\ Saved[p] \notin Saving /\ Failed[p] \notin Saving /\ Off[p] \notin Saving
<1>1. ASSUME NEW a \in Accounts
      PROVE  /\ DeleteStep[a] = IF a = "pepper" THEN "delete pepper" ELSE "delete jwt"
             /\ AddStep[a] = IF a = "pepper" THEN "add pepper" ELSE "add jwt"
  <2>1. CASE a = "pepper"
    BY <2>1 DEF DeleteStep, AddStep
  <2>2. CASE a = "jwt"
    BY <2>2 DEF DeleteStep, AddStep
  <2> QED BY <2>1, <2>2 DEF Accounts
<1>2. ASSUME NEW p \in Processes
      PROVE  /\ Saved[p] = IF p = "server" THEN "ready" ELSE "settings"
             /\ Failed[p] = IF p = "server" THEN "ready" ELSE "idle"
             /\ Off[p] = IF p = "server" THEN "down" ELSE "idle"
  BY DEF Processes, Saved, Failed, Off
<1> QED BY <1>1, <1>2 DEF Saving

(* A process goes to one place, the other stays. *)
LEMMA GoType ==
    ASSUME at \in At, NEW p \in Processes, NEW place, Go(p, place),
           IF p = "server" THEN place \in Saving \cup {"down", "ready", "up"}
                           ELSE place \in Saving \cup {"idle", "settings", "done"}
    PROVE  /\ at' \in At /\ at'[p] = place /\ at'[Other(p)] = at[Other(p)]
           /\ \A q \in Processes : q # p => at'[q] = at[q]
  BY DEF At, Go, Other, Processes, Saving

(* A start, whichever way it has its secrets; *)
LEMMA TypedStart ==
    ASSUME Typed, NEW e \in Environments, NEW unlocked \in BOOLEAN,
           StartGiven(e) \/ StartStored(e, unlocked) \/ StartGenerates(e, unlocked)
    PROVE  Typed'
<1>1. e["pepper"] \in {None, Given} /\ e["jwt"] \in {None, Given, TooShort}
      /\ e \in [pepper : {None, Given}, jwt : {None, Given, TooShort}]
  BY EnvironmentType
<1>2. at \in At /\ pairs \in Nat /\ MaxPairs \in Nat /\ at["server"] = "down"
  BY BoundAssumption DEF Typed, TypeOK, At, StartGiven, StartStored, StartGenerates, StartCommon
<1>3. excused' \in BOOLEAN /\ refused' \in BOOLEAN /\ overtaken' \in [Processes -> BOOLEAN]
  BY DEF Typed, TypeOK, StartGiven, StartStored, StartGenerates, StartCommon, Changed, Locked
<1>4. UNCHANGED <<disk, hashed>> /\ env' \in Environments /\ env' = e
  BY DEF StartGiven, StartStored, StartGenerates, StartCommon
<1>5. /\ keychain' \in [Accounts -> Pairs \cup {None}]
      /\ file' \in Pairs \cup {None} /\ settings' \in Backends \cup {None}
      /\ hashed' \subseteq Pairs \cup {Given}
  BY <1>4 DEF Typed, TypeOK, disk
<1>6. CASE StartGiven(e) \/ StartStored(e, unlocked)
  <2>1. at' \in At /\ at'["server"] = "ready" /\ at'["init"] = at["init"]
    BY <1>2, <1>6, GoType DEF StartGiven, StartStored, Processes
  <2>2. UNCHANGED <<pair, backend, pairs>> /\ source' \in {"environment", "stored"}
    BY <1>6 DEF StartGiven, StartStored
  <2>3. running' \in [pepper : Pairs \cup {Given}, jwt : Values]
        /\ (source' = "environment" => running' = e)
    <3>1. CASE StartGiven(e)
      <4>1. e["pepper"] = Given /\ e["jwt"] \in {Given, TooShort}
        BY <1>1, <3>1 DEF StartGiven, Accounts
      <4> QED BY <1>1, <3>1, <4>1 DEF StartGiven, Values
    <3>2. CASE StartStored(e, unlocked)
      BY <3>2, StoredType, OverriddenType DEF StartStored, Typed
    <3> QED BY <1>6, <3>1, <3>2
  <2>4. running' \in [Accounts -> Values]
    BY <2>3 DEF Accounts, Values
  <2> QED BY <1>3, <1>4, <1>5, <2>1, <2>2, <2>3, <2>4 DEF Typed, TypeOK, At, Processes, Saving
<1>7. CASE StartGenerates(e, unlocked)
  <2>1. Preferred \in {"keychain", "file"} /\ Preferred \in Backends
    BY BackendsAssumption DEF Preferred, Typed, TypeOK
  <2>2. at' \in At /\ at'["server"] \in Saving /\ at'["init"] = at["init"]
    <3>1. FirstStep(Preferred) \in Saving
      BY DEF FirstStep, Saving
    <3> QED BY <1>2, <1>7, <3>1, GoType DEF StartGenerates, Generate, Processes
  <2>3. pairs + 1 \in Pairs /\ pairs' \in 0 .. MaxPairs
    BY <1>2, <1>7 DEF StartGenerates, Generate, Pairs
  <2>4. /\ pair' \in [Processes -> Pairs \cup {None}] /\ pair'["server"] = pairs + 1
        /\ pair'["init"] = pair["init"]
        /\ backend' \in [Processes -> Backends]
    BY <1>7, <2>1, <2>3 DEF StartGenerates, Generate, Processes, Typed, TypeOK
  <2>5. source' = "unsaved" /\ running' = Both(pair'["server"])
    BY <1>7, <2>4 DEF StartGenerates
  <2>6. running' \in [Accounts -> Values] /\ running' \in [pepper : Pairs \cup {Given}, jwt : Values]
    BY <2>3, <2>4, <2>5, BothType DEF Values
  <2> QED BY <1>3, <1>4, <1>5, <2>2, <2>3, <2>4, <2>5, <2>6 DEF Typed, TypeOK, At, Processes, Saving
<1> QED BY <1>6, <1>7

(* the init command; *)
LEMMA TypedInit ==
    ASSUME Typed, NEW b \in Backends, InitCommand(b)
    PROVE  Typed'
<1>1. at \in At /\ pairs \in Nat /\ MaxPairs \in Nat
  BY BoundAssumption DEF Typed, TypeOK, At
<1>2. at' \in At /\ at'["init"] \in Saving /\ at'["server"] = at["server"]
  <2>1. FirstStep(b) \in Saving
    BY DEF FirstStep, Saving
  <2> QED BY <1>1, <2>1, GoType DEF InitCommand, Generate, Processes
<1>3. pairs + 1 \in Pairs /\ pairs' \in 0 .. MaxPairs
  BY <1>1 DEF InitCommand, Generate, Pairs
<1>4. /\ pair' \in [Processes -> Pairs \cup {None}] /\ pair'["init"] = pairs + 1
      /\ pair'["server"] = pair["server"]
      /\ backend' \in [Processes -> Backends] /\ overtaken' \in [Processes -> BOOLEAN]
  BY <1>3 DEF InitCommand, Generate, Processes, Typed, TypeOK
<1>5. UNCHANGED <<disk, server, refused, excused>>
  BY DEF InitCommand
<1>6. \A p \in Processes : p # "init" => at'[p] = at[p] /\ pair'[p] = pair[p]
  BY <1>2, <1>4 DEF Processes
<1>7. /\ keychain' = keychain /\ file' = file /\ settings' = settings /\ hashed' = hashed
      /\ env' = env /\ running' = running /\ source' = source
      /\ refused' = refused /\ excused' = excused
  BY <1>5 DEF disk, server
<1>8. TypeOK'
  BY <1>2, <1>3, <1>4, <1>7 DEF Typed, TypeOK, At
<1>9. \A p \in Processes : at'[p] \in Saving => pair'[p] \in Pairs
  BY <1>3, <1>4, <1>6 DEF Typed
<1> QED BY <1>2, <1>3, <1>4, <1>7, <1>8, <1>9 DEF Typed

(* and any step of saving keep the types. *)
LEMMA TypedSaves ==
    ASSUME Typed, NEW p \in Processes,
           at[p] \in Saving, at' \in At, at'[Other(p)] = at[Other(p)],
           at'[p] \in Saving \cup {Saved[p], Failed[p]},
           at'[p] \in Saving => source' = source,
           source' \in {source, "saved"}, p # "server" => source' = source,
           keychain' \in [Accounts -> Pairs \cup {None}], file' \in Pairs \cup {None},
           UNCHANGED <<settings, hashed, env, running, pair, backend, pairs>>,
           overtaken' \in [Processes -> BOOLEAN], refused' \in BOOLEAN, excused' \in BOOLEAN
    PROVE  Typed'
<1>1. CASE p = "server"
  <2>1. at["server"] # "down" /\ at["server"] \in Saving /\ at'["init"] = at["init"]
    BY <1>1 DEF Saving, Other
  <2>2. source = "unsaved"
    BY <2>1 DEF Typed
  <2>3. pair["server"] \in Pairs
    BY <2>1 DEF Typed, Processes
  <2> QED BY <1>1, <2>1, <2>2, <2>3 DEF Typed, TypeOK, At, Processes, Saving, Saved, Failed
<1>2. CASE p = "init"
  <2>1. at["init"] \in Saving /\ at'["server"] = at["server"]
    BY <1>2 DEF Saving, Other
  <2>2. pair["init"] \in Pairs
    BY <2>1 DEF Typed, Processes
  <2> QED BY <1>2, <2>1, <2>2 DEF Typed, TypeOK, At, Processes, Saving, Saved, Failed
<1> QED BY <1>1, <1>2 DEF Processes

LEMMA WroteType ==
    ASSUME Typed, NEW p \in Processes, Wrote(p)
    PROVE  overtaken' \in [Processes -> BOOLEAN] /\ excused' \in BOOLEAN
  BY DEF Typed, TypeOK, Wrote

LEMMA TypedStep == Typed /\ [Next]_vars => Typed'
<1> SUFFICES ASSUME Typed, [Next]_vars PROVE Typed'
  OBVIOUS
<1>1. at \in At
  BY DEF Typed, TypeOK, At
<1>2. /\ keychain \in [Accounts -> Pairs \cup {None}] /\ file \in Pairs \cup {None}
      /\ overtaken \in [Processes -> BOOLEAN] /\ refused \in BOOLEAN /\ excused \in BOOLEAN
      /\ \A p \in Processes : at[p] \in Saving => pair[p] \in Pairs
  BY DEF Typed, TypeOK
<1>3. ASSUME NEW e \in Environments, NEW unlocked \in BOOLEAN,
             StartGiven(e) \/ StartStored(e, unlocked) \/ StartGenerates(e, unlocked)
      PROVE  Typed'
  BY <1>3, TypedStart
<1>4. ASSUME NEW b \in Backends, InitCommand(b) PROVE Typed'
  BY <1>4, TypedInit
<1>5. ASSUME NEW p \in Processes, NEW a \in Accounts, Delete(p, a) PROVE Typed'
  <2>1. at[p] \in Saving /\ AddStep[a] \in Saving /\ Go(p, AddStep[a])
    BY <1>5, Places DEF Delete
  <2>2. at' \in At /\ at'[p] \in Saving /\ at'[Other(p)] = at[Other(p)]
    BY <1>1, <2>1, GoType
  <2>3. keychain' \in [Accounts -> Pairs \cup {None}]
    BY <1>2, <1>5 DEF Delete
  <2>4. UNCHANGED <<file, settings, server, pair, backend, pairs>> /\ refused' \in BOOLEAN /\ Wrote(p)
    BY <1>2, <1>5 DEF Delete
  <2> QED BY <1>2, <2>1, <2>2, <2>3, <2>4, WroteType, TypedSaves DEF server
<1>6. ASSUME NEW p \in Processes, NEW a \in Accounts, Add(p, a) PROVE Typed'
  <2>1. at[p] \in Saving /\ pair[p] \in Pairs
    BY <1>2, <1>6, Places DEF Add
  <2>2. keychain' \in [Accounts -> Pairs \cup {None}]
    BY <1>2, <1>6, <2>1 DEF Add
  <2>3. /\ UNCHANGED <<file, settings, hashed, env, running, pair, backend, pairs, refused>>
        /\ Wrote(p)
    BY <1>6 DEF Add
  <2>4. CASE a = "pepper"
    <3>1. Go(p, "delete jwt") /\ source' = source /\ "delete jwt" \in Saving
      BY <1>6, <2>4 DEF Add, Saving
    <3>2. at' \in At /\ at'[p] \in Saving /\ at'[Other(p)] = at[Other(p)]
      BY <1>1, <3>1, GoType
    <3> QED BY <1>2, <2>1, <2>2, <2>3, <3>1, <3>2, WroteType, TypedSaves
  <2>5. CASE a # "pepper"
    <3>1. Go(p, Saved[p]) /\ source' = IF p = "server" THEN "saved" ELSE source
      BY <1>6, <2>5 DEF Add, MarkSaved
    <3>2. at' \in At /\ at'[p] = Saved[p] /\ at'[Other(p)] = at[Other(p)]
      BY <1>1, <3>1, Places, GoType
    <3>3. Saved[p] \notin Saving
      BY Places
    <3> QED BY <1>2, <2>1, <2>2, <2>3, <3>1, <3>2, <3>3, WroteType, TypedSaves
  <2> QED BY <2>4, <2>5
<1>7. ASSUME NEW p \in Processes, NEW a \in Accounts, AddFails(p, a) PROVE Typed'
  <2>1. at[p] \in Saving /\ "open file" \in Saving /\ Go(p, "open file")
    BY <1>7, Places DEF AddFails, Saving
  <2>2. at' \in At /\ at'[p] \in Saving /\ at'[Other(p)] = at[Other(p)]
    BY <1>1, <2>1, GoType
  <2>3. UNCHANGED <<disk, server, pair, backend, pairs, overtaken, refused, excused>>
    BY <1>7 DEF AddFails
  <2> QED BY <1>2, <2>1, <2>2, <2>3, TypedSaves DEF disk, server
<1>8. ASSUME NEW p \in Processes, OpenFile(p) PROVE Typed'
  <2>1. at[p] \in Saving /\ "write file" \in Saving /\ Go(p, "write file")
    BY <1>8 DEF OpenFile, Saving
  <2>2. at' \in At /\ at'[p] \in Saving /\ at'[Other(p)] = at[Other(p)]
    BY <1>1, <2>1, GoType
  <2>3. UNCHANGED <<keychain, settings, server, pair, backend, pairs, refused>> /\ Wrote(p)
        /\ file' = None
    BY <1>8 DEF OpenFile
  <2> QED BY <1>2, <2>1, <2>2, <2>3, WroteType, TypedSaves DEF server
<1>9. ASSUME NEW p \in Processes, WriteFile(p) PROVE Typed'
  <2>1. at[p] \in Saving /\ Go(p, Saved[p]) /\ source' = IF p = "server" THEN "saved" ELSE source
    BY <1>9 DEF WriteFile, Saving, MarkSaved
  <2>2. at' \in At /\ at'[p] = Saved[p] /\ at'[Other(p)] = at[Other(p)]
    BY <1>1, <2>1, Places, GoType
  <2>3. UNCHANGED <<keychain, settings, hashed, env, running, pair, backend, pairs, refused>>
        /\ Wrote(p) /\ file' \in Pairs
    BY <1>2, <1>9, <2>1 DEF WriteFile
  <2>4. Saved[p] \notin Saving
    BY Places
  <2> QED BY <1>2, <2>1, <2>2, <2>3, <2>4, WroteType, TypedSaves
<1>10. ASSUME NEW p \in Processes, FileFails(p) PROVE Typed'
  <2>1. at[p] \in Saving /\ Go(p, Failed[p])
    BY <1>10 DEF FileFails, Saving
  <2>2. at' \in At /\ at'[p] = Failed[p] /\ at'[Other(p)] = at[Other(p)]
    BY <1>1, <2>1, Places, GoType
  <2>3. UNCHANGED <<keychain, settings, server, pair, backend, pairs, refused>>
        /\ Wrote(p) /\ file' \in Pairs \cup {None}
    BY <1>2, <1>10, <2>1 DEF FileFails
  <2> QED BY <1>2, <2>1, <2>2, <2>3, WroteType, TypedSaves DEF server
<1>11. ASSUME NEW p \in Processes, Stop(p) PROVE Typed'
  <2>1. at' \in At /\ at'[p] = Off[p] /\ \A q \in Processes : q # p => at'[q] = at[q]
    BY <1>1, <1>11, Places, GoType DEF Stop
  <2>2. UNCHANGED <<disk, server, pair, backend, pairs, overtaken, refused, excused>>
    BY <1>11 DEF Stop
  <2>3. TypeOK'
    BY <2>1, <2>2 DEF Typed, TypeOK, At, disk, server
  <2>4. \A q \in Processes : \/ at'[q] = at[q]
                             \/ at'[q] = "down" /\ q = "server"
                             \/ at'[q] = "idle" /\ q = "init"
    <3> SUFFICES ASSUME NEW q \in Processes, q = p
                 PROVE  \/ at'[q] = "down" /\ q = "server"
                        \/ at'[q] = "idle" /\ q = "init"
      BY <2>1
    <3>1. at'[q] = Off[q]
      BY <2>1
    <3>2. CASE q = "server"
      BY <3>1, <3>2 DEF Off
    <3>3. CASE q = "init"
      BY <3>1, <3>3 DEF Off
    <3> QED BY <3>2, <3>3 DEF Processes
  <2>5. \A q \in Processes : at'[q] \in Saving => at'[q] = at[q]
    BY <2>4 DEF Saving
  <2>6. at'["server"] # "down" => at'["server"] = at["server"]
    BY <2>4 DEF Processes
  <2>7. at'["init"] \in {"settings", "done"} => at'["init"] = at["init"]
    BY <2>4 DEF Processes
  <2> QED BY <2>2, <2>3, <2>5, <2>6, <2>7 DEF Typed, server
<1>12. CASE SaveSettings \/ DeleteSettings
  <2>1. /\ at' \in At /\ at'["init"] \in {"done", "idle"} /\ at'["server"] = at["server"]
        /\ at["init"] \in {"settings", "done"}
    BY <1>1, <1>12, GoType DEF SaveSettings, DeleteSettings, Processes
  <2>2. /\ UNCHANGED <<keychain, file, server, pair, backend, pairs, refused>>
        /\ settings' \in Backends \cup {None}
        /\ overtaken' \in [Processes -> BOOLEAN] /\ excused' \in BOOLEAN
    BY <1>2, <1>12, WroteType DEF SaveSettings, DeleteSettings, Processes, Typed, TypeOK
  <2> QED BY <2>1, <2>2 DEF Typed, TypeOK, At, Processes, Saving, server
<1>13. CASE Serve
  <2>1. at' \in At /\ at'["server"] = "up" /\ at'["init"] = at["init"] /\ at["server"] = "ready"
    BY <1>1, <1>13, GoType DEF Serve, Processes
  <2>2. UNCHANGED <<disk, server, pair, backend, pairs, overtaken, refused, excused>>
    BY <1>13 DEF Serve
  <2>3. TypeOK'
    BY <2>1, <2>2 DEF Typed, TypeOK, At, disk, server
  <2>4. \A q \in Processes : at'[q] \in Saving => at'[q] = at[q]
    BY <2>1 DEF Saving, Processes
  <2>5. at["server"] # "down" /\ at'["server"] \notin Saving
    BY <2>1 DEF Saving
  <2> QED BY <2>1, <2>2, <2>3, <2>4, <2>5 DEF Typed, server
<1>14. CASE StoreKey
  <2>1. hashed' \subseteq Pairs \cup {Given} /\ excused' \in BOOLEAN
    <3>1. running["pepper"] \in Pairs \cup {Given}
      BY <1>14 DEF StoreKey, Typed
    <3> QED BY <1>2, <1>14, <3>1 DEF StoreKey, Typed, TypeOK
  <2>2. UNCHANGED <<disk, env, running, source, at, pair, backend, pairs, overtaken, refused>>
    BY <1>14 DEF StoreKey
  <2> QED BY <2>1, <2>2 DEF Typed, TypeOK, disk
<1>15. CASE UNCHANGED vars
  BY <1>15 DEF vars, disk, server, Typed, TypeOK
<1> QED BY <1>3, <1>4, <1>5, <1>6, <1>7, <1>8, <1>9, <1>10, <1>11, <1>12, <1>13, <1>14, <1>15 DEF Next

-----------------------------------------------------------------------------

(* Who leaves the disk alone leaves what a start finds. *)
LEMMA DiskSame ==
    ASSUME UNCHANGED disk
    PROVE  Stored(TRUE)' = Stored(TRUE) /\ (Incomplete' <=> Incomplete)
  BY DEF disk, Stored, FromKeychain, FromFile, Preferred, Incomplete

(* The steps, as the proofs below take them: those of saving together. *)
LEMMA Steps ==
    ASSUME [Next]_vars
    PROVE  \/ \E e \in Environments, unlocked \in BOOLEAN :
                 StartGiven(e) \/ StartStored(e, unlocked) \/ StartGenerates(e, unlocked)
           \/ \E b \in Backends : InitCommand(b)
           \/ \E p \in Processes, a \in Accounts :
                 \/ Delete(p, a) \/ Add(p, a) \/ AddFails(p, a)
                 \/ OpenFile(p) \/ WriteFile(p) \/ FileFails(p)
           \/ \E p \in Processes : Stop(p)
           \/ SaveSettings \/ DeleteSettings \/ Serve \/ StoreKey \/ UNCHANGED vars
<1>1. "pepper" \in Accounts /\ TRUE \in BOOLEAN
  BY DEF Accounts
<1> QED BY <1>1 DEF Next

(* What the steps of saving do. *)
LEMMA SaveSteps ==
    ASSUME Typed, NEW p \in Processes, NEW a \in Accounts,
           Delete(p, a) \/ Add(p, a) \/ AddFails(p, a) \/ OpenFile(p) \/ WriteFile(p) \/ FileFails(p)
    PROVE  /\ at[p] \in Saving /\ at'[Other(p)] = at[Other(p)]
           /\ UNCHANGED <<settings, hashed, env, running, pair, backend, pairs>>
           /\ refused => refused'
           /\ overtaken'[p] = overtaken[p]
           /\ ~AddFails(p, a) => overtaken'[Other(p)] /\ (excused' <=> excused \/ (p = "init" /\ InUse))
           /\ AddFails(p, a) => UNCHANGED <<disk, overtaken, refused, excused>>
           /\ at[p] # "add jwt" /\ at[p] # "write file" => UNCHANGED source
           /\ p # "server" => UNCHANGED source
           /\ source' \in {source, "saved"}
<1>1. at \in At /\ overtaken \in [Processes -> BOOLEAN]
  BY DEF Typed, TypeOK, At
<1>2. Other(p) \in Processes /\ Other(p) # p
  BY DEF Other, Processes
<1>3. at[p] \in Saving
  BY Places DEF Delete, Add, AddFails, OpenFile, WriteFile, FileFails, Saving
<1>4. at'[Other(p)] = at[Other(p)]
  BY <1>1, <1>2, Places DEF Delete, Add, AddFails, OpenFile, WriteFile, FileFails, Go, At, Processes
<1>5. Wrote(p) \/ (AddFails(p, a) /\ UNCHANGED <<disk, overtaken, refused, excused>>)
  BY DEF Delete, Add, AddFails, OpenFile, WriteFile, FileFails
<1>6. Wrote(p) => /\ overtaken'[p] = overtaken[p] /\ overtaken'[Other(p)]
                  /\ excused' <=> excused \/ (p = "init" /\ InUse)
  BY <1>1, <1>2 DEF Wrote
<1>7. UNCHANGED <<settings, hashed, env, running, pair, backend, pairs>>
  BY DEF Delete, Add, AddFails, OpenFile, WriteFile, FileFails, disk, server
<1>8. refused => refused'
  BY DEF Delete, Add, AddFails, OpenFile, WriteFile, FileFails
<1>9. /\ source' \in {source, "saved"}
      /\ p # "server" => source' = source
      /\ at[p] # "add jwt" /\ at[p] # "write file" => source' = source
  BY Places DEF Delete, Add, AddFails, OpenFile, WriteFile, FileFails, MarkSaved, server, Accounts
<1>10. ~AddFails(p, a) => Wrote(p)
  BY <1>5
<1>11. AddFails(p, a) => UNCHANGED <<disk, overtaken, refused, excused>>
  BY DEF AddFails
<1>12. overtaken'[p] = overtaken[p]
  BY <1>6, <1>10, <1>11
<1> QED BY <1>3, <1>4, <1>6, <1>7, <1>8, <1>9, <1>10, <1>11, <1>12

(* A step of init overtakes the server or does not touch what it relies on. *)
LEMMA ServerSavesSame ==
    ASSUME Typed, ServerSaves,
           \/ overtaken'["server"]
           \/ /\ at'["server"] = at["server"] \/ at'["server"] = "down"
                 \/ (at["server"] = "ready" /\ at'["server"] = "up")
              /\ pair'["server"] = pair["server"]
              /\ UNCHANGED <<disk, source, running, env>>
              /\ overtaken'["server"] = overtaken["server"]
              /\ refused => refused'
    PROVE  ServerSaves'
<1>1. CASE overtaken'["server"]
  BY <1>1 DEF ServerSaves
<1>2. CASE ~overtaken'["server"]
  <2>1. /\ UNCHANGED <<disk, source, running, env>>
        /\ pair'["server"] = pair["server"]
        /\ overtaken'["server"] = overtaken["server"] /\ (refused => refused')
        /\ at'["server"] \in {at["server"], "down", "up"}
        /\ at'["server"] = "up" => at["server"] \in {"ready", "up"}
    BY <1>2
  <2>2. Stored(TRUE)' = Stored(TRUE) /\ (Incomplete' <=> Incomplete)
        /\ keychain' = keychain /\ file' = file
    BY <2>1, DiskSame DEF disk
  <2>3. Overridden(env, Stored(TRUE))' = Overridden(env, Stored(TRUE))
    BY <2>1, <2>2 DEF Overridden
  <2>4. Progress("server") => Progress("server")'
    BY <2>1, <2>2 DEF Progress
  <2>5. at'["server"] \in Saving \cup {"ready"} => at'["server"] = at["server"]
    BY <2>1 DEF Saving
  <2> QED BY <2>1, <2>2, <2>3, <2>4, <2>5 DEF ServerSaves, Saving
<1> QED BY <1>1, <1>2

(* A server that generates has found nothing in either backend. *)
LEMMA ServerSavesStart ==
    ASSUME Typed, Typed', NEW e \in Environments, NEW unlocked \in BOOLEAN,
           StartGiven(e) \/ StartStored(e, unlocked) \/ StartGenerates(e, unlocked)
    PROVE  ServerSaves'
<1> SUFFICES ASSUME ~refused' PROVE ServerSaves'
  BY DEF ServerSaves
<1>1. at \in At /\ UNCHANGED disk /\ env' = e
  BY DEF Typed, TypeOK, At, StartGiven, StartStored, StartGenerates, StartCommon
<1>2. Stored(TRUE)' = Stored(TRUE) /\ (Incomplete' <=> Incomplete) /\ file' = file
  BY <1>1, DiskSame DEF disk
<1>3. CASE StartGiven(e)
  <2>1. at'["server"] = "ready" /\ source' = "environment"
    BY <1>1, <1>3, GoType DEF StartGiven, Processes
  <2> QED BY <2>1 DEF ServerSaves, Progress, Saving
<1>4. CASE StartStored(e, unlocked)
  <2>1. at'["server"] = "ready" /\ source' = "stored"
    BY <1>1, <1>4, GoType DEF StartStored, Processes
  <2>2. Stored(unlocked) = Stored(TRUE)
    BY <1>4, LockedOrStored DEF StartStored
  <2>3. Stored(TRUE)' # None /\ Overridden(env, Stored(TRUE))' = running'
    BY <1>1, <1>2, <1>4, <2>2 DEF StartStored, Overridden
  <2> QED BY <2>1, <2>3 DEF ServerSaves, Progress, Saving
<1>5. CASE StartGenerates(e, unlocked)
  <2>1. at'["server"] \in {"delete pepper", "open file"}
    <3>1. Go("server", FirstStep(Preferred)) /\ FirstStep(Preferred) \in {"delete pepper", "open file"}
      BY <1>5 DEF StartGenerates, Generate, FirstStep
    <3> QED BY <1>1, <3>1, GoType DEF Processes, Saving
  <2>2. Stored(TRUE) = None
    BY <1>5, LockedOrStored DEF StartGenerates
  <2>3. file = None /\ Incomplete
    BY <2>2, StoredIs DEF Finds, Typed
  <2> QED BY <1>2, <2>1, <2>3 DEF ServerSaves, Progress, Saving
<1> QED BY <1>3, <1>4, <1>5

(* The server's own commands: an entry that cannot be replaced is one that is missing, so
   that the file answers; two that were replaced answer, as there is no file. *)
LEMMA ServerSavesSaves ==
    ASSUME Typed, Typed', ServerSaves, NEW a \in Accounts,
           \/ Delete("server", a) \/ Add("server", a) \/ AddFails("server", a)
           \/ OpenFile("server") \/ WriteFile("server") \/ FileFails("server")
    PROVE  ServerSaves'
<1> DEFINE p == "server"
           n == pair["server"]
<1> SUFFICES ASSUME ~refused', ~overtaken'["server"] PROVE ServerSaves'
  BY DEF ServerSaves
<1>1. /\ p \in Processes /\ at[p] \in Saving /\ at \in At /\ pair' = pair
      /\ ~refused /\ ~overtaken["server"] /\ running' = running
      /\ source = "unsaved" /\ running = Both(n) /\ n \in Pairs
      /\ at'[p] \in Saving => source' = source
  <2>1. p \in Processes
    BY DEF Processes
  <2>2. at[p] \in Saving /\ pair' = pair /\ running' = running
        /\ (refused => refused') /\ overtaken'[p] = overtaken[p]
    BY <2>1, SaveSteps
  <2>3. at["server"] # "down"
    BY <2>2 DEF Saving
  <2>4. source = "unsaved" /\ running = Both(n) /\ n \in Pairs
    BY <2>1, <2>2, <2>3 DEF Typed
  <2>5. at'["server"] # "down" /\ at'[p] \in Saving => source' = "unsaved"
    BY DEF Typed
  <2> QED BY <2>1, <2>2, <2>4, <2>5 DEF Typed, TypeOK, At, Saving
<1>2. /\ Progress(p)
      /\ at[p] \in Saving \ {"open file", "write file"} => file = None
      /\ at[p] \in {"open file", "write file"} => Incomplete
  BY <1>1 DEF ServerSaves
<1>3. keychain \in [Accounts -> Pairs \cup {None}]
  BY DEF Typed, TypeOK
<1>4. CASE Delete(p, a)
  <2>1. /\ at[p] = DeleteStep[a] /\ at'[p] = AddStep[a] /\ file' = file
        /\ keychain' = [keychain EXCEPT ![a] = None]
    <3>1. keychain'[a] = None
      BY <1>1, <1>4 DEF Delete
    <3>2. keychain' = [keychain EXCEPT ![a] = None]
      BY <1>3, <1>4, <3>1 DEF Delete
    <3>3. at'[p] = AddStep[a]
      <4>1. Go(p, AddStep[a]) /\ AddStep[a] \in Saving
        BY <1>4, Places DEF Delete
      <4> QED BY <1>1, <4>1, GoType
    <3> QED BY <1>4, <3>2, <3>3 DEF Delete
  <2>2. CASE a = "pepper"
    <3>1. at[p] = "delete pepper" /\ at'[p] = "add pepper" /\ keychain'["pepper"] = None
      BY <1>3, <2>1, <2>2, Places DEF Accounts
    <3> QED BY <1>1, <1>2, <2>1, <3>1 DEF ServerSaves, Progress, Saving
  <2>3. CASE a = "jwt"
    <3>1. /\ at[p] = "delete jwt" /\ at'[p] = "add jwt" /\ keychain'["jwt"] = None
          /\ keychain'["pepper"] = keychain["pepper"]
      BY <1>3, <2>1, <2>3, Places DEF Accounts
    <3> QED BY <1>1, <1>2, <2>1, <3>1 DEF ServerSaves, Progress, Saving
  <2> QED BY <2>2, <2>3 DEF Accounts
<1>5. CASE Add(p, a)
  <2>1. at[p] = AddStep[a] /\ keychain' = [keychain EXCEPT ![a] = n] /\ file' = file
    BY <1>5 DEF Add
  <2>2. CASE a = "pepper"
    <3>1. at[p] = "add pepper" /\ keychain'["pepper"] = n
      BY <1>3, <2>1, <2>2, Places DEF Accounts
    <3>2. at'[p] = "delete jwt"
      BY <1>1, <1>5, <2>2, GoType DEF Add, Saving
    <3> QED BY <1>1, <1>2, <2>1, <3>1, <3>2 DEF ServerSaves, Progress, Saving
  <2>3. CASE a = "jwt"
    <3>1. at[p] = "add jwt" /\ keychain' = [b \in Accounts |-> n]
      BY <1>2, <1>3, <2>1, <2>3, Places DEF Accounts, Progress
    <3>2. at'[p] = "ready"
      <4>1. Go(p, "ready")
        BY <1>5, <2>3 DEF Add, Saved
      <4> QED BY <1>1, <4>1, GoType
    <3>3. file' = None /\ ~Incomplete' /\ keychain' = Both(n)
      <4>1. n # None
        BY <1>1, NullAssumption DEF Pairs
      <4>2. file' = None
        BY <1>2, <2>1, <3>1 DEF Saving
      <4> QED BY <3>1, <4>1, <4>2 DEF Incomplete, Both
    <3>4. Stored(TRUE)' = Both(n)
      BY <3>3, StoredNext DEF Finds, Typed
    <3>5. source' = "saved"
      BY <1>5, <2>3 DEF Add, MarkSaved
    <3> QED BY <1>1, <3>2, <3>4, <3>5 DEF ServerSaves, Progress, Saving
  <2> QED BY <2>2, <2>3 DEF Accounts
<1>6. CASE AddFails(p, a)
  <2>1. at[p] = AddStep[a] /\ at'[p] = "open file" /\ UNCHANGED disk
    BY <1>1, <1>6, GoType DEF AddFails, Saving
  <2>2. Incomplete
    BY <1>2, <2>1, Places DEF Progress, Accounts, Incomplete
  <2>3. Incomplete'
    BY <2>1, <2>2, DiskSame
  <2> QED BY <1>1, <2>1, <2>3 DEF ServerSaves, Progress, Saving
<1>7. CASE OpenFile(p)
  <2>1. at[p] = "open file" /\ at'[p] = "write file" /\ keychain' = keychain
    BY <1>1, <1>7, GoType DEF OpenFile, Saving
  <2>2. Incomplete'
    BY <1>2, <2>1 DEF Incomplete
  <2> QED BY <1>1, <2>1, <2>2 DEF ServerSaves, Progress, Saving
<1>8. CASE WriteFile(p)
  <2>1. /\ at[p] = "write file" /\ at'[p] = "ready" /\ keychain' = keychain /\ file' = n
        /\ source' = "saved"
    <3>1. at[p] = "write file" /\ Go(p, "ready") /\ keychain' = keychain /\ file' = n
          /\ source' = "saved"
      BY <1>8 DEF WriteFile, MarkSaved, Saved
    <3> QED BY <1>1, <3>1, GoType
  <2>2. Incomplete' /\ file' # None
    <3>1. n # None
      BY <1>1, NullAssumption DEF Pairs
    <3> QED BY <1>2, <2>1, <3>1 DEF Incomplete
  <2>3. Stored(TRUE)' = Both(n)
    BY <2>1, <2>2, StoredNext DEF Finds, Typed
  <2> QED BY <1>1, <2>1, <2>3 DEF ServerSaves, Progress, Saving
<1>9. CASE FileFails(p)
  <2>1. at'[p] = "ready" /\ source' = "unsaved"
    BY <1>1, <1>9, GoType, Places DEF FileFails, server
  <2> QED BY <1>1, <2>1 DEF ServerSaves, Progress, Saving
<1> QED BY <1>4, <1>5, <1>6, <1>7, <1>8, <1>9

LEMMA ServerSavesStep ==
    ASSUME Typed, Typed', ServerSaves, [Next]_vars PROVE ServerSaves'
<1>0. at \in At /\ overtaken \in [Processes -> BOOLEAN]
  BY DEF Typed, TypeOK, At
<1>1. ASSUME NEW e \in Environments, NEW unlocked \in BOOLEAN,
             StartGiven(e) \/ StartStored(e, unlocked) \/ StartGenerates(e, unlocked)
      PROVE  ServerSaves'
  BY <1>1, ServerSavesStart
<1>2. ASSUME NEW b \in Backends, InitCommand(b) PROVE ServerSaves'
  <2>1. /\ at'["server"] = at["server"] /\ pair'["server"] = pair["server"]
        /\ overtaken'["server"] = overtaken["server"]
    BY <1>0, <1>2 DEF InitCommand, Generate, Go, At, Processes, Typed, TypeOK
  <2>2. UNCHANGED <<disk, source, running, env>> /\ refused' = refused
    BY <1>2 DEF InitCommand, server
  <2> QED BY <2>1, <2>2, ServerSavesSame
<1>3. ASSUME NEW p \in Processes, NEW a \in Accounts,
             \/ Delete(p, a) \/ Add(p, a) \/ AddFails(p, a)
             \/ OpenFile(p) \/ WriteFile(p) \/ FileFails(p)
      PROVE  ServerSaves'
  <2>1. CASE p = "server"
    BY <1>3, <2>1, ServerSavesSaves
  <2>2. CASE p = "init"
    <3>1. Other(p) = "server"
      BY <2>2 DEF Other
    <3>2. CASE ~AddFails(p, a)
      <4>1. overtaken'["server"]
        <5>1. overtaken'[Other(p)]
          BY <1>3, <3>2, SaveSteps
        <5> QED BY <3>1, <5>1
      <4> QED BY <4>1, ServerSavesSame
    <3>3. CASE AddFails(p, a)
      <4>1. at'["server"] = at["server"]
        BY <1>3, <3>1, SaveSteps
      <4>2. UNCHANGED <<disk, server, pair, overtaken, refused>>
        BY <3>3 DEF AddFails
      <4> QED BY <4>1, <4>2, ServerSavesSame DEF server
    <3> QED BY <3>2, <3>3
  <2> QED BY <2>1, <2>2 DEF Processes
<1>4. ASSUME NEW p \in Processes, Stop(p) PROVE ServerSaves'
  <2>1. at'["server"] = at["server"] \/ at'["server"] = "down"
    BY <1>0, <1>4 DEF Stop, Go, Off, At, Processes
  <2>2. UNCHANGED <<disk, server, pair, overtaken, refused>>
    BY <1>4 DEF Stop
  <2> QED BY <2>1, <2>2, ServerSavesSame DEF server
<1>5. CASE SaveSettings \/ DeleteSettings
  <2>1. overtaken'["server"]
    BY <1>0, <1>5 DEF SaveSettings, DeleteSettings, Wrote, Other, Processes
  <2> QED BY <2>1, ServerSavesSame
<1>6. CASE Serve
  <2>1. at["server"] = "ready" /\ at'["server"] = "up"
    BY <1>0, <1>6 DEF Serve, Go, At
  <2>2. UNCHANGED <<disk, server, pair, overtaken, refused>>
    BY <1>6 DEF Serve
  <2> QED BY <2>1, <2>2, ServerSavesSame DEF server
<1>7. CASE StoreKey
  BY <1>7, ServerSavesSame DEF StoreKey
<1>8. CASE UNCHANGED vars
  <2>1. /\ UNCHANGED <<disk, source, running, env>> /\ at' = at /\ pair' = pair
        /\ overtaken' = overtaken /\ refused' = refused
    BY <1>8 DEF vars, server
  <2> QED BY <2>1, ServerSavesSame
<1> QED BY <1>1, <1>2, <1>3, <1>4, <1>5, <1>6, <1>7, <1>8, Steps

-----------------------------------------------------------------------------

(* A step of the server overtakes init or does not touch what it relies on. *)
LEMMA InitSavesSame ==
    ASSUME Typed, InitSaves,
           \/ overtaken'["init"]
           \/ /\ at'["init"] = at["init"] \/ at'["init"] = "idle"
              /\ pair'["init"] = pair["init"] /\ backend'["init"] = backend["init"]
              /\ UNCHANGED disk
              /\ overtaken'["init"] = overtaken["init"]
              /\ refused => refused'
    PROVE  InitSaves'
<1>1. CASE overtaken'["init"]
  BY <1>1 DEF InitSaves
<1>2. CASE ~overtaken'["init"]
  <2>1. /\ UNCHANGED disk /\ at'["init"] \in {at["init"], "idle"}
        /\ pair'["init"] = pair["init"] /\ backend'["init"] = backend["init"]
        /\ overtaken'["init"] = overtaken["init"] /\ (refused => refused')
    BY <1>2
  <2>2. Stored(TRUE)' = Stored(TRUE) /\ (Incomplete' <=> Incomplete)
        /\ keychain' = keychain /\ file' = file /\ settings' = settings
    BY <2>1, DiskSame DEF disk
  <2>3. Progress("init") => Progress("init")'
    BY <2>1, <2>2 DEF Progress
  <2>4. CASE at'["init"] = "idle"
    BY <2>4 DEF InitSaves, Progress, Saving
  <2>5. CASE at'["init"] = at["init"]
    BY <2>1, <2>2, <2>3, <2>5 DEF InitSaves, Both
  <2> QED BY <2>1, <2>4, <2>5
<1> QED BY <1>1, <1>2

(* The commands of init: the settings it writes last name the backend that has its pair,
   unless the keychain misses an entry and cannot answer. *)
LEMMA InitSavesSaves ==
    ASSUME Typed, Typed', InitSaves, NEW a \in Accounts,
           \/ Delete("init", a) \/ Add("init", a) \/ AddFails("init", a)
           \/ OpenFile("init") \/ WriteFile("init") \/ FileFails("init")
    PROVE  InitSaves'
<1> DEFINE p == "init"
           n == pair["init"]
           b == backend["init"]
<1> SUFFICES ASSUME ~refused', ~overtaken'["init"] PROVE InitSaves'
  BY DEF InitSaves
<1>1. /\ p \in Processes /\ at[p] \in Saving /\ at \in At /\ pair' = pair /\ backend' = backend
      /\ ~refused /\ ~overtaken["init"] /\ n \in Pairs /\ n # None
  <2>1. p \in Processes
    BY DEF Processes
  <2>2. at[p] \in Saving /\ pair' = pair /\ backend' = backend
        /\ (refused => refused') /\ overtaken'[p] = overtaken[p]
    BY <2>1, SaveSteps
  <2>3. n \in Pairs
    BY <2>1, <2>2 DEF Typed
  <2>4. n # None
    BY <2>3, NullAssumption DEF Pairs
  <2> QED BY <2>1, <2>2, <2>3, <2>4 DEF Typed, TypeOK, At
<1>2. /\ Progress(p)
      /\ at[p] \in Saving \ {"open file", "write file"} => b = "keychain"
      /\ at[p] \in {"open file", "write file"} => b = "file" \/ Incomplete
  BY <1>1 DEF InitSaves
<1>3. keychain \in [Accounts -> Pairs \cup {None}]
  BY DEF Typed, TypeOK
<1>4. CASE Delete(p, a)
  <2>1. at[p] = DeleteStep[a] /\ at'[p] = AddStep[a] /\ keychain' = [keychain EXCEPT ![a] = None]
    <3>1. keychain'[a] = None
      BY <1>1, <1>4 DEF Delete
    <3>2. keychain' = [keychain EXCEPT ![a] = None]
      BY <1>3, <1>4, <3>1 DEF Delete
    <3>3. Go(p, AddStep[a]) /\ AddStep[a] \in Saving
      BY <1>4, Places DEF Delete
    <3>4. at'[p] = AddStep[a]
      BY <1>1, <3>3, GoType
    <3> QED BY <1>4, <3>2, <3>4 DEF Delete
  <2>2. CASE a = "pepper"
    <3>1. at[p] = "delete pepper" /\ at'[p] = "add pepper" /\ keychain'["pepper"] = None
      BY <1>3, <2>1, <2>2, Places DEF Accounts
    <3> QED BY <1>1, <1>2, <3>1 DEF InitSaves, Progress, Saving
  <2>3. CASE a = "jwt"
    <3>1. /\ at[p] = "delete jwt" /\ at'[p] = "add jwt" /\ keychain'["jwt"] = None
          /\ keychain'["pepper"] = keychain["pepper"]
      BY <1>3, <2>1, <2>3, Places DEF Accounts
    <3> QED BY <1>1, <1>2, <3>1 DEF InitSaves, Progress, Saving
  <2> QED BY <2>2, <2>3 DEF Accounts
<1>5. CASE Add(p, a)
  <2>1. at[p] = AddStep[a] /\ keychain' = [keychain EXCEPT ![a] = n]
    BY <1>5 DEF Add
  <2>2. CASE a = "pepper"
    <3>1. at[p] = "add pepper" /\ keychain'["pepper"] = n
      BY <1>3, <2>1, <2>2, Places DEF Accounts
    <3>2. at'[p] = "delete jwt"
      BY <1>1, <1>5, <2>2, GoType DEF Add, Saving
    <3> QED BY <1>1, <1>2, <3>1, <3>2 DEF InitSaves, Progress, Saving
  <2>3. CASE a = "jwt"
    <3>1. at[p] = "add jwt" /\ keychain' = [c \in Accounts |-> n]
      BY <1>2, <1>3, <2>1, <2>3, Places DEF Accounts, Progress
    <3>2. at'[p] = "settings"
      <4>1. Go(p, "settings")
        BY <1>5, <2>3 DEF Add, Saved
      <4> QED BY <1>1, <4>1, GoType
    <3>3. keychain' = Both(n) /\ b = "keychain"
      BY <1>2, <3>1 DEF Both, Saving
    <3>4. (keychain = Both(pair["init"]))'
      BY <1>1, <3>3 DEF Both
    <3> QED BY <1>1, <3>2, <3>3, <3>4 DEF InitSaves, Progress, Saving
  <2> QED BY <2>2, <2>3 DEF Accounts
<1>6. CASE AddFails(p, a)
  <2>1. at[p] = AddStep[a] /\ at'[p] = "open file" /\ UNCHANGED disk
    BY <1>1, <1>6, GoType DEF AddFails, Saving
  <2>2. Incomplete
    BY <1>2, <2>1, Places DEF Progress, Accounts, Incomplete
  <2>3. Incomplete'
    BY <2>1, <2>2, DiskSame
  <2> QED BY <1>1, <2>1, <2>3 DEF InitSaves, Progress, Saving
<1>7. CASE OpenFile(p)
  <2>1. at[p] = "open file" /\ at'[p] = "write file" /\ keychain' = keychain
    BY <1>1, <1>7, GoType DEF OpenFile, Saving
  <2>2. b = "file" \/ Incomplete'
    BY <1>2, <2>1 DEF Incomplete
  <2> QED BY <1>1, <2>1, <2>2 DEF InitSaves, Progress, Saving
<1>8. CASE WriteFile(p)
  <2>1. at[p] = "write file" /\ at'[p] = "settings" /\ keychain' = keychain /\ file' = n
    <3>1. at[p] = "write file" /\ Go(p, "settings") /\ keychain' = keychain /\ file' = n
      BY <1>8 DEF WriteFile, Saved
    <3> QED BY <1>1, <3>1, GoType
  <2>2. b = "file" \/ Incomplete'
    BY <1>2, <2>1 DEF Incomplete
  <2> QED BY <1>1, <2>1, <2>2 DEF InitSaves, Progress, Saving
<1>9. CASE FileFails(p)
  <2>1. at'[p] = "idle"
    <3>1. Go(p, "idle")
      BY <1>9 DEF FileFails, Failed
    <3> QED BY <1>1, <3>1, GoType
  <2> QED BY <1>1, <2>1 DEF InitSaves, Progress, Saving
<1> QED BY <1>4, <1>5, <1>6, <1>7, <1>8, <1>9

LEMMA InitSavesStep ==
    ASSUME Typed, Typed', InitSaves, [Next]_vars PROVE InitSaves'
<1>0. at \in At /\ overtaken \in [Processes -> BOOLEAN]
  BY DEF Typed, TypeOK, At
<1>1. ASSUME NEW e \in Environments, NEW unlocked \in BOOLEAN,
             StartGiven(e) \/ StartStored(e, unlocked) \/ StartGenerates(e, unlocked)
      PROVE  InitSaves'
  <2>1. at'["init"] = at["init"] /\ overtaken'["init"] = overtaken["init"] /\ UNCHANGED disk
    BY <1>0, <1>1 DEF StartGiven, StartStored, StartGenerates, StartCommon, Generate, Go, At, Processes
  <2>2. pair'["init"] = pair["init"] /\ backend'["init"] = backend["init"] /\ (refused => refused')
    BY <1>1 DEF StartGiven, StartStored, StartGenerates, Generate, Typed, TypeOK, Processes
  <2> QED BY <2>1, <2>2, InitSavesSame
<1>2. ASSUME NEW b \in Backends, InitCommand(b) PROVE InitSaves'
  <2>1. Go("init", FirstStep(b)) /\ FirstStep(b) = IF b = "keychain" THEN "delete pepper" ELSE "open file"
    BY <1>2 DEF InitCommand, Generate, FirstStep
  <2>2. at'["init"] = FirstStep(b) /\ backend'["init"] = b /\ b \in {"keychain", "file"}
    BY <1>0, <1>2, <2>1, BackendsAssumption DEF InitCommand, Generate, Go, At, Processes, Typed, TypeOK
  <2> QED BY <2>1, <2>2 DEF InitSaves, Progress, Saving
<1>3. ASSUME NEW p \in Processes, NEW a \in Accounts,
             \/ Delete(p, a) \/ Add(p, a) \/ AddFails(p, a)
             \/ OpenFile(p) \/ WriteFile(p) \/ FileFails(p)
      PROVE  InitSaves'
  <2>1. CASE p = "init"
    BY <1>3, <2>1, InitSavesSaves
  <2>2. CASE p = "server"
    <3>1. Other(p) = "init"
      BY <2>2 DEF Other
    <3>2. CASE ~AddFails(p, a)
      <4>1. overtaken'["init"]
        <5>1. overtaken'[Other(p)]
          BY <1>3, <3>2, SaveSteps
        <5> QED BY <3>1, <5>1
      <4> QED BY <4>1, InitSavesSame
    <3>3. CASE AddFails(p, a)
      <4>1. at'["init"] = at["init"]
        BY <1>3, <3>1, SaveSteps
      <4>2. UNCHANGED <<disk, server, pair, backend, overtaken, refused>>
        BY <3>3 DEF AddFails
      <4> QED BY <4>1, <4>2, InitSavesSame
    <3> QED BY <3>2, <3>3
  <2> QED BY <2>1, <2>2 DEF Processes
<1>4. ASSUME NEW p \in Processes, Stop(p) PROVE InitSaves'
  <2>1. at'["init"] = at["init"] \/ at'["init"] = "idle"
    BY <1>0, <1>4 DEF Stop, Go, Off, At, Processes
  <2>2. UNCHANGED <<disk, server, pair, backend, overtaken, refused>>
    BY <1>4 DEF Stop
  <2> QED BY <2>1, <2>2, InitSavesSame
<1>5. CASE SaveSettings
  <2> SUFFICES ASSUME ~refused', ~overtaken'["init"] PROVE InitSaves'
    BY DEF InitSaves
  <2>1. /\ at["init"] = "settings" /\ keychain' = keychain /\ file' = file
        /\ pair' = pair /\ backend' = backend /\ ~refused
    BY <1>5 DEF SaveSettings
  <2>2. ~overtaken["init"]
    BY <1>0, <1>5 DEF SaveSettings, Wrote, Other, Processes
  <2> DEFINE n == pair["init"]
             b == backend["init"]
  <2>3. n # None /\ b \in {"keychain", "file"} /\ b # None
    <3>1. n \in Pairs
      BY <2>1 DEF Typed
    <3>2. b \in {"keychain", "file"}
      BY BackendsAssumption DEF Typed, TypeOK, Processes
    <3> QED BY <3>1, <3>2, NullAssumption DEF Pairs
  <2>4. \/ b = "keychain" /\ keychain = Both(n)
        \/ file = n /\ (b = "file" \/ Incomplete)
    BY <2>1, <2>2 DEF InitSaves
  <2>5. CASE at'["init"] = "idle"
    BY <2>5 DEF InitSaves, Progress, Saving
  <2>6. CASE at'["init"] # "idle"
    <3>1. settings' = b /\ at'["init"] = "done"
      BY <1>0, <1>5, <2>6 DEF SaveSettings, Go, At
    <3>2. Preferred' = b
      BY <2>3, <3>1 DEF Preferred
    <3>3. CASE b = "keychain" /\ keychain = Both(n)
      <4>1. ~Incomplete' /\ keychain' = Both(n)
        BY <2>1, <2>3, <3>3, BothType DEF Incomplete, Both
      <4>2. Stored(TRUE)' = Both(n)
        BY <3>2, <3>3, <4>1, StoredNext DEF Finds, Typed
      <4> QED BY <2>1, <2>3, <3>1, <4>2 DEF InitSaves, Progress, Saving, Both
    <3>4. CASE file = n /\ (b = "file" \/ Incomplete)
      <4>1. file' = n /\ file' # None /\ (b = "file" \/ Incomplete')
        BY <2>1, <2>3, <3>4 DEF Incomplete
      <4>2. Stored(TRUE)' = Both(n)
        BY <3>2, <4>1, StoredNext DEF Finds, Typed
      <4> QED BY <2>1, <2>3, <3>1, <4>2 DEF InitSaves, Progress, Saving, Both
    <3> QED BY <2>4, <3>3, <3>4
  <2> QED BY <2>5, <2>6
<1>6. CASE DeleteSettings
  <2>1. overtaken'["init"]
    BY <1>0, <1>6 DEF DeleteSettings, Processes
  <2> QED BY <2>1, InitSavesSame
<1>7. CASE Serve
  <2>1. at'["init"] = at["init"]
    BY <1>0, <1>7 DEF Serve, Go, At
  <2> QED BY <1>7, <2>1, InitSavesSame DEF Serve
<1>8. CASE StoreKey
  BY <1>8, InitSavesSame DEF StoreKey
<1>9. CASE UNCHANGED vars
  <2>1. /\ UNCHANGED disk /\ at' = at /\ pair' = pair /\ backend' = backend
        /\ overtaken' = overtaken /\ refused' = refused
    BY <1>9 DEF vars
  <2> QED BY <2>1, InitSavesSame
<1> QED BY <1>1, <1>2, <1>3, <1>4, <1>5, <1>6, <1>7, <1>8, <1>9, Steps

-----------------------------------------------------------------------------

LEMMA EnvType ==
    ASSUME Typed PROVE env["pepper"] \in {None, Given} /\ None # Given
<1>1. None # Given
  BY NullAssumption DEF Given
<1>2. env \in Environments \/ env = Both(None)
  BY DEF Typed, TypeOK
<1> QED BY <1>1, <1>2, EnvironmentType, BothType

LEMMA ExcusedStep ==
    ASSUME Typed, Typed', Excused, [Next]_vars PROVE Excused'
<1>0. at \in At /\ overtaken \in [Processes -> BOOLEAN]
  BY DEF Typed, TypeOK, At
<1> SUFFICES ASSUME at'["server"] # "down", ~excused'
             PROVE  /\ ~overtaken'["server"]
                    /\ source' \in {"saved", "unsaved"} => env'["pepper"] = None
  BY DEF Excused
<1> DEFINE Goal == /\ ~overtaken'["server"]
                   /\ source' \in {"saved", "unsaved"} => env'["pepper"] = None
<1>1. ASSUME NEW e \in Environments, NEW unlocked \in BOOLEAN,
             StartGiven(e) \/ StartStored(e, unlocked) \/ StartGenerates(e, unlocked)
      PROVE  Goal
  <2>1. env' = e /\ ~overtaken'["server"]
    BY <1>0, <1>1 DEF StartGiven, StartStored, StartGenerates, StartCommon, Processes
  <2>2. source' \in {"saved", "unsaved"} => e["pepper"] = None
    BY <1>1 DEF StartGiven, StartStored, StartGenerates
  <2> QED BY <2>1, <2>2
<1>2. ASSUME at["server"] # "down", excused' = excused, UNCHANGED <<source, env>>,
             overtaken'["server"] = overtaken["server"]
      PROVE  Goal
  BY <1>2 DEF Excused
<1>3. ASSUME NEW b \in Backends, InitCommand(b) PROVE Goal
  <2>1. /\ at'["server"] = at["server"] /\ overtaken'["server"] = overtaken["server"]
    BY <1>0, <1>3 DEF InitCommand, Generate, Go, At, Processes
  <2>2. UNCHANGED <<source, env>> /\ excused' = excused
    BY <1>3 DEF InitCommand, server
  <2> QED BY <1>2, <2>1, <2>2
<1>4. ASSUME NEW p \in Processes, NEW a \in Accounts,
             \/ Delete(p, a) \/ Add(p, a) \/ AddFails(p, a)
             \/ OpenFile(p) \/ WriteFile(p) \/ FileFails(p)
      PROVE  Goal
  <2>1. /\ at[p] \in Saving /\ at'[Other(p)] = at[Other(p)] /\ env' = env
        /\ overtaken'[p] = overtaken[p]
        /\ ~AddFails(p, a) => (excused' <=> excused \/ (p = "init" /\ InUse))
        /\ AddFails(p, a) => UNCHANGED <<disk, overtaken, refused, excused>>
        /\ source' \in {source, "saved"} /\ (p # "server" => source' = source)
    BY <1>4, SaveSteps
  <2>2. CASE p = "server"
    <3>1. at["server"] # "down" /\ at["server"] \in Saving
      BY <2>1, <2>2 DEF Saving
    <3>2. ~excused /\ source = "unsaved"
      BY <2>1, <2>2, <3>1 DEF Typed
    <3> QED BY <2>1, <2>2, <3>1, <3>2 DEF Excused
  <2>3. CASE p = "init"
    <3>1. at["server"] # "down"
      BY <2>1, <2>3 DEF Other
    <3>2. AddFails(p, a)
      BY <2>1, <2>3, <3>1 DEF InUse
    <3>3. overtaken' = overtaken /\ excused' = excused /\ source' = source
      BY <2>1, <2>3, <3>2
    <3> QED BY <1>2, <2>1, <3>1, <3>3
  <2> QED BY <2>2, <2>3 DEF Processes
<1>5. ASSUME NEW p \in Processes, Stop(p) PROVE Goal
  <2>1. at["server"] # "down"
    BY <1>0, <1>5 DEF Stop, Go, Off, At, Processes
  <2>2. UNCHANGED <<server, overtaken, excused>>
    BY <1>5 DEF Stop
  <2> QED BY <1>2, <2>1, <2>2 DEF server
<1>6. CASE SaveSettings \/ DeleteSettings
  <2>1. at'["server"] = at["server"]
    BY <1>0, <1>6 DEF SaveSettings, DeleteSettings, Go, At
  <2>2. excused'
    BY <1>6, <2>1 DEF SaveSettings, DeleteSettings, Wrote, InUse
  <2> QED BY <2>2
<1>7. CASE Serve
  <2>1. at["server"] # "down" /\ UNCHANGED <<server, overtaken, excused>>
    BY <1>7 DEF Serve
  <2> QED BY <1>2, <2>1 DEF server
<1>8. CASE StoreKey
  <2>1. at' = at /\ source' = source /\ env' = env /\ overtaken' = overtaken /\ ~excused
    BY <1>8 DEF StoreKey
  <2> QED BY <2>1 DEF Excused
<1>9. CASE UNCHANGED vars
  <2>1. at' = at /\ UNCHANGED <<source, env, overtaken, excused>>
    BY <1>9 DEF vars, server
  <2> QED BY <1>2, <2>1
<1> QED BY <1>1, <1>3, <1>4, <1>5, <1>6, <1>7, <1>8, <1>9, Steps

-----------------------------------------------------------------------------

(* Nobody touches the disk, or no key is stored. *)
LEMMA HashedSame ==
    ASSUME Typed, HashedIsFound,
           \/ hashed' = {}
           \/ /\ UNCHANGED <<disk, hashed, env, running>>
              /\ at'["server"] = at["server"] \/ at'["server"] = "down"
                 \/ (at["server"] = "ready" /\ at'["server"] = "up")
              /\ refused => refused'
              /\ excused => excused'
    PROVE  HashedIsFound'
<1>1. CASE hashed' = {}
  BY <1>1 DEF HashedIsFound
<1>2. CASE hashed' # {}
  <2>1. /\ UNCHANGED <<disk, hashed, env, running>> /\ (refused => refused') /\ (excused => excused')
        /\ at'["server"] \in {at["server"], "down", "up"}
        /\ at'["server"] = "up" => at["server"] \in {"ready", "up"}
    BY <1>2
  <2>2. Stored(TRUE)' = Stored(TRUE)
    BY <2>1, DiskSame
  <2> QED BY <2>1, <2>2 DEF HashedIsFound, Saving
<1> QED BY <1>1, <1>2

(* A start with stored keys finds their pepper. *)
LEMMA HashedStart ==
    ASSUME Typed, Typed', HashedIsFound, NEW e \in Environments, NEW unlocked \in BOOLEAN,
           StartGiven(e) \/ StartStored(e, unlocked) \/ StartGenerates(e, unlocked)
    PROVE  HashedIsFound'
<1> SUFFICES ASSUME ~refused', ~excused', hashed # {} PROVE HashedIsFound'
  <2>1. hashed' = hashed
    BY DEF StartGiven, StartStored, StartGenerates, StartCommon
  <2> QED BY <2>1 DEF HashedIsFound
<1>1. /\ at \in At /\ UNCHANGED <<disk, hashed>> /\ env' = e
      /\ ~refused /\ ~excused /\ e["pepper"] = env["pepper"]
  BY DEF Typed, TypeOK, At, StartGiven, StartStored, StartGenerates, StartCommon, Changed
<1>2. /\ Stored(TRUE)' = Stored(TRUE) /\ None # Given
      /\ e["pepper"] \in {None, Given}
  BY <1>1, DiskSame, EnvType
<1>3. \/ e["pepper"] = Given /\ hashed = {Given}
      \/ e["pepper"] = None /\ Stored(TRUE) # None /\ hashed = {Stored(TRUE)["pepper"]}
  BY <1>1 DEF HashedIsFound
<1>4. CASE StartGiven(e)
  <2>1. at'["server"] = "ready" /\ running' = e /\ e["pepper"] # None
    BY <1>1, <1>4, GoType DEF StartGiven, Processes, Accounts
  <2>2. hashed' = {running'["pepper"]}
    BY <1>1, <1>2, <1>3, <2>1
  <2> QED BY <1>1, <1>2, <1>3, <2>1, <2>2 DEF HashedIsFound, Saving
<1>5. CASE StartStored(e, unlocked)
  <2>1. /\ at'["server"] = "ready" /\ Stored(unlocked) = Stored(TRUE) /\ Stored(TRUE) # None
        /\ running' = Overridden(e, Stored(TRUE))
    <3>1. Stored(unlocked) = Stored(TRUE)
      BY <1>5, LockedOrStored DEF StartStored
    <3>2. at'["server"] = "ready"
      BY <1>1, <1>5, GoType DEF StartStored, Processes
    <3> QED BY <1>5, <3>1, <3>2 DEF StartStored
  <2>2. Stored(TRUE) \in [Accounts -> Pairs]
    BY <2>1, StoredType DEF Typed
  <2>3. running'["pepper"] = IF e["pepper"] = None THEN Stored(TRUE)["pepper"] ELSE Given
    BY <2>1, <2>2, OverriddenType
  <2>4. hashed' = {running'["pepper"]}
    BY <1>1, <1>2, <1>3, <2>3
  <2> QED BY <1>1, <1>2, <1>3, <2>1, <2>4 DEF HashedIsFound, Saving
<1>6. CASE StartGenerates(e, unlocked)
  <2>1. Stored(TRUE) = None /\ e["pepper"] = None
    BY <1>6, LockedOrStored DEF StartGenerates
  <2> QED BY <1>2, <1>3, <2>1
<1> QED BY <1>4, <1>5, <1>6

(* A key is stored under the pepper that the next start finds. *)
LEMMA HashedStore ==
    ASSUME Typed, Typed', ServerSaves, Excused, HashedIsFound, StoreKey
    PROVE  HashedIsFound'
<1> SUFFICES ASSUME ~refused', ~excused' PROVE HashedIsFound'
  BY DEF HashedIsFound
<1> DEFINE pepper == running["pepper"]
<1>1. /\ at["server"] = "up" /\ hashed' = hashed \cup {pepper} /\ source # "unsaved"
      /\ UNCHANGED <<disk, env, running, at>> /\ ~refused /\ ~excused
  BY DEF StoreKey
<1>2. Stored(TRUE)' = Stored(TRUE)
  BY <1>1, DiskSame
<1>3. hashed' = {pepper}
  BY <1>1 DEF HashedIsFound
<1>4. /\ running \in [pepper : Pairs \cup {Given}, jwt : Values]
      /\ source \in {"environment", "stored", "saved"}
      /\ source = "environment" => running = env
      /\ ~overtaken["server"] /\ (source = "saved" => env["pepper"] = None)
      /\ source = "saved" => Stored(TRUE) = running
      /\ source = "stored" => Stored(TRUE) # None /\ Overridden(env, Stored(TRUE)) = running
  BY <1>1 DEF Typed, TypeOK, Excused, ServerSaves
<1>5. env["pepper"] \in {None, Given} /\ None # Given
  BY EnvType
<1>6. \/ env["pepper"] = Given /\ pepper = Given
      \/ env["pepper"] = None /\ Stored(TRUE) # None /\ pepper = Stored(TRUE)["pepper"]
  <2>1. CASE source = "environment"
    <3>1. pepper # None
      BY <1>4, NullAssumption DEF Pairs, Given
    <3> QED BY <1>4, <1>5, <2>1, <3>1
  <2>2. CASE source = "saved"
    <3>1. running \in [Accounts -> Nat \cup {TooShort}]
      BY <1>4 DEF Accounts, Values, Pairs, Given
    <3>2. Stored(TRUE) # None
      BY <1>4, <2>2, <3>1, NullAssumption
    <3> QED BY <1>4, <2>2, <3>2
  <2>3. CASE source = "stored"
    <3>1. pepper = FirstOf(env["pepper"], Stored(TRUE)["pepper"])
      BY <1>4, <2>3 DEF Overridden, Accounts
    <3> QED BY <1>4, <1>5, <2>3, <3>1 DEF FirstOf
  <2> QED BY <1>4, <2>1, <2>2, <2>3
<1> HIDE DEF pepper
<1>7. pepper = running'["pepper"]
  BY <1>1 DEF pepper
<1> QED BY <1>1, <1>2, <1>3, <1>6, <1>7 DEF HashedIsFound, Saving

LEMMA HashedStep ==
    ASSUME Typed, Typed', ServerSaves, Excused, HashedIsFound, [Next]_vars
    PROVE  HashedIsFound'
<1>0. at \in At
  BY DEF Typed, TypeOK, At
<1>1. ASSUME NEW e \in Environments, NEW unlocked \in BOOLEAN,
             StartGiven(e) \/ StartStored(e, unlocked) \/ StartGenerates(e, unlocked)
      PROVE  HashedIsFound'
  BY <1>1, HashedStart
<1>2. ASSUME NEW b \in Backends, InitCommand(b) PROVE HashedIsFound'
  <2>1. at'["server"] = at["server"]
    BY <1>0, <1>2 DEF InitCommand, Generate, Go, At
  <2>2. UNCHANGED <<disk, hashed, env, running>> /\ refused' = refused /\ excused' = excused
    BY <1>2 DEF InitCommand, server
  <2> QED BY <2>1, <2>2, HashedSame
<1>3. ASSUME NEW p \in Processes, NEW a \in Accounts,
             \/ Delete(p, a) \/ Add(p, a) \/ AddFails(p, a)
             \/ OpenFile(p) \/ WriteFile(p) \/ FileFails(p)
      PROVE  HashedIsFound'
  <2>1. /\ at[p] \in Saving /\ at'[Other(p)] = at[Other(p)]
        /\ UNCHANGED <<hashed, env, running>> /\ (refused => refused')
        /\ ~AddFails(p, a) => (excused' <=> excused \/ (p = "init" /\ InUse))
        /\ AddFails(p, a) => UNCHANGED <<disk, overtaken, refused, excused>>
    BY <1>3, SaveSteps
  <2> SUFFICES ASSUME ~refused', ~excused' PROVE HashedIsFound'
    BY DEF HashedIsFound
  <2>2. ~refused /\ ~excused
    BY <2>1
  <2>3. CASE p = "server"
    <3>1. hashed' = {}
      BY <2>1, <2>2, <2>3 DEF HashedIsFound
    <3> QED BY <3>1, HashedSame
  <2>4. CASE p = "init" /\ ~AddFails(p, a)
    <3>1. hashed' = {}
      BY <2>1, <2>4 DEF InUse
    <3> QED BY <3>1, HashedSame
  <2>5. CASE p = "init" /\ AddFails(p, a)
    <3>1. at'["server"] = at["server"]
      BY <2>1, <2>5 DEF Other
    <3> QED BY <2>1, <2>5, <3>1, HashedSame
  <2> QED BY <2>3, <2>4, <2>5 DEF Processes
<1>4. ASSUME NEW p \in Processes, Stop(p) PROVE HashedIsFound'
  <2>1. at'["server"] = at["server"] \/ at'["server"] = "down"
    BY <1>0, <1>4 DEF Stop, Go, Off, At, Processes
  <2>2. UNCHANGED <<disk, hashed, env, running>> /\ refused' = refused /\ excused' = excused
    BY <1>4 DEF Stop, server
  <2> QED BY <2>1, <2>2, HashedSame
<1>5. CASE SaveSettings \/ DeleteSettings
  <2> SUFFICES ASSUME ~excused' PROVE HashedIsFound'
    BY DEF HashedIsFound
  <2>1. hashed' = {}
    BY <1>5 DEF SaveSettings, DeleteSettings, Wrote, InUse, server
  <2> QED BY <2>1, HashedSame
<1>6. CASE Serve
  <2>1. at["server"] = "ready" /\ at'["server"] = "up"
    BY <1>0, <1>6 DEF Serve, Go, At
  <2>2. UNCHANGED <<disk, hashed, env, running>> /\ refused' = refused /\ excused' = excused
    BY <1>6 DEF Serve, server
  <2> QED BY <2>1, <2>2, HashedSame
<1>7. CASE StoreKey
  BY <1>7, HashedStore
<1>8. CASE UNCHANGED vars
  <2>1. at' = at /\ UNCHANGED <<disk, hashed, env, running>> /\ refused' = refused /\ excused' = excused
    BY <1>8 DEF vars, server
  <2> QED BY <2>1, HashedSame
<1> QED BY <1>1, <1>2, <1>3, <1>4, <1>5, <1>6, <1>7, <1>8, Steps

-----------------------------------------------------------------------------

LEMMA InductiveInit == Init => Inductive
<1> SUFFICES ASSUME Init PROVE Inductive
  OBVIOUS
<1>1. Off \in At /\ Off["server"] = "down" /\ Off["init"] = "idle" /\ \A p \in Processes : Off[p] \notin Saving
  BY Places DEF At, Off, Processes
<1>2. Both(None) \in [Accounts -> Pairs \cup {None}]
  BY BothType
<1>3. Typed
  <2>1. TypeOK
    <3>1. at \in At /\ keychain \in [Accounts -> Pairs \cup {None}] /\ pairs \in 0 .. MaxPairs
      BY <1>1, <1>2, BoundAssumption DEF Init
    <3>2. /\ pair \in [Processes -> Pairs \cup {None}] /\ backend \in [Processes -> Backends]
          /\ overtaken \in [Processes -> BOOLEAN]
      BY BackendsAssumption DEF Init
    <3>3. file = None /\ settings = None /\ hashed = {} /\ env = Both(None) /\ running = None
          /\ source = "none" /\ refused = FALSE /\ excused = FALSE
      BY DEF Init
    <3> QED BY <3>1, <3>2, <3>3 DEF TypeOK, At
  <2> QED BY <1>1, <2>1 DEF Init, Typed
<1>4. ServerSaves /\ InitSaves
  BY <1>1 DEF Init, ServerSaves, InitSaves, Progress, Saving
<1>5. Excused /\ HashedIsFound
  BY <1>1 DEF Init, Excused, HashedIsFound, Saving
<1> QED BY <1>3, <1>4, <1>5 DEF Inductive

LEMMA InductiveStep == Inductive /\ [Next]_vars => Inductive'
<1> SUFFICES ASSUME Inductive, [Next]_vars PROVE Inductive'
  OBVIOUS
<1>1. Typed /\ Typed'
  BY TypedStep DEF Inductive
<1> QED BY <1>1, ServerSavesStep, InitSavesStep, ExcusedStep, HashedStep DEF Inductive

(* The inductive invariant: how far each process is with its writes, and what lies in the
   backend that is asked first. *)
THEOREM SecretsInductive == Spec => []Inductive
  BY InductiveInit, InductiveStep, PTL DEF Spec

(* Every variable of Secrets keeps its type; only generated secrets are persisted. *)
THEOREM SecretsTyped == Spec => []TypeOK
<1>1. Inductive => TypeOK
  BY DEF Inductive, Typed
<1> QED BY <1>1, SecretsInductive, PTL

(* What the server says it saved, or found, a restart finds, whatever failed to be
   written and wherever processes were stopped before: of a server that another
   process has overtaken, or after the keychain refused something, nothing is said. *)
THEOREM SavedFound == Spec => []SavedIsFound
<1>1. Inductive => SavedIsFound
  BY DEF Inductive, ServerSaves, SavedIsFound
<1> QED BY <1>1, SecretsInductive, PTL

(* After "Setup complete" the secrets init generated are those a start finds stored,
   with the same two exceptions.  Variables of that start come on top of them. *)
THEOREM SetupFound == Spec => []SetupIsFound
<1>1. Inductive => SetupIsFound
  BY DEF Inductive, InitSaves, SetupIsFound
<1> QED BY <1>1, SecretsInductive, PTL

(* Stored keys outlive restarts, crashes in the middle of a write included. *)
THEOREM KeysKept == Spec => []KeysSurvive
<1>1. Inductive => KeysSurvive
  BY DEF Inductive, HashedIsFound, KeysSurvive
<1> QED BY <1>1, SecretsInductive, PTL

=============================================================================
