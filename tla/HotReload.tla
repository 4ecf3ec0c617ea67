------------------------------- MODULE HotReload -------------------------------
(***************************************************************************)
(* The connector files of an ingestion daemon and what it runs of them:    *)
(* the load at the start, the polling loops and webhook routes made from   *)
(* it, and the reload by file watcher or by signal of ingestion/daemon.py  *)
(* and ingestion/watcher.py.  A reload has no await in it and is one step. *)
(*                                                                         *)
(* All connectors stand alone (depends_on, accounts are empty) and have a  *)
(* webhook; a datatype in a file is one with an ingestion section.         *)
(***************************************************************************)
EXTENDS Naturals, FiniteSets, FiniteSetsExt, Sequences, SequencesExt, Ordered

CONSTANTS
  Files,         \* names of connector files, in the order of sorted()
  Names,         \* connector names, likewise
  Datatypes,
  Distinct,      \* no two files ever hold one name
  Installed,     \* whether the library watchfiles is: the choices looked at
  MaxEdits,      \* changes of files, and restarts (bounds)
  MaxRestarts

HotReloadAssumption ==
  /\ Files \subseteq Nat /\ IsFiniteSet(Files) /\ Names \subseteq Nat \ {0} /\ Distinct \in BOOLEAN
  /\ Installed \subseteq BOOLEAN /\ {MaxEdits, MaxRestarts} \subseteq Nat

VARIABLES
  library,       \* watchfiles is installed
  file,          \* file -> its content
  edits,
  phase,         \* "off", "loaded", "watching", "blind" or "signals"
  changed,       \* files that changed since the watcher last reported
  missed,        \* files whose last change nobody was told of
  flag,          \* SIGHUP, or the command reload-config
  configs,       \* connector_configs
  loops,         \* the polling loops: bag of [name, datatype, rev]
  routes,        \* names with a webhook route
  restarts

directory == <<file, edits>>
running == <<configs, loops>>
vars == <<library, file, edits, phase, changed, missed, flag, configs, loops, routes, restarts>>

Gone == [name |-> 0]
Bad == [name |-> 0, broken |-> TRUE]
Connectors == [name : Names, rev : 0 .. MaxEdits, datatypes : (SUBSET Datatypes) \ {{}}]
Readable(f) == file[f] \in Connectors

DistinctNames(files) ==
  Distinct => \A f, g \in Files : f # g /\ files[f] \in Connectors => files[f].name # files[g].name

NoLoops == [l \in [name : Names, datatype : Datatypes, rev : 0 .. MaxEdits] |-> 0]

Init ==
  /\ library \in Installed
  /\ file \in [Files -> {Gone} \cup {c \in Connectors : c.rev = 0}] /\ DistinctNames(file)
  /\ edits = 0 /\ restarts = 0
  /\ phase = "off" /\ changed = {} /\ missed = {} /\ flag = FALSE
  /\ configs = <<>> /\ loops = NoLoops /\ routes = {}

----------------------------------------------------------------------------
(* The operator. *)

(* Atomically, or a write that is half done: Bad.                          *)
Edit(f, content) ==
  /\ edits < MaxEdits /\ edits' = edits + 1
  /\ file' = [file EXCEPT ![f] = content] /\ DistinctNames(file')
  /\ changed' = IF phase = "watching" THEN changed \cup {f} ELSE changed
  /\ missed' = IF phase \in {"off", "watching"} THEN missed \ {f} ELSE missed \cup {f}
  /\ UNCHANGED <<library, phase, flag, running, routes, restarts>>

Signal ==
  /\ phase # "off" /\ flag' = TRUE
  /\ UNCHANGED <<library, directory, phase, changed, missed, running, routes, restarts>>

----------------------------------------------------------------------------
(* The daemon. *)

(* What _load_connectors makes of the files, in their order.               *)
Loaded(files) == LET good == {f \in files : Readable(f)}
                     sorted == Ascending(good)
                 IN  [k \in DOMAIN sorted |-> file[sorted[k]]]

(* One of each name, the last that was loaded.                             *)
Sorted(cs) ==
  LET names == Ascending({cs[k].name : k \in DOMAIN cs})
  IN  [k \in DOMAIN names |-> cs[Max({j \in DOMAIN cs : cs[j].name = names[k]})]]

Started(bag, cs) ==
  [l \in DOMAIN bag |->
     bag[l] + Cardinality({k \in DOMAIN cs : /\ cs[k].name = l.name /\ cs[k].rev = l.rev
                                             /\ l.datatype \in cs[k].datatypes})]

Load ==
  /\ phase = "off" /\ phase' = "loaded"
  /\ configs' = Sorted(Loaded(Files))
  /\ loops' = Started(NoLoops, configs')
  /\ routes' = {configs'[k].name : k \in DOMAIN configs'}
  /\ changed' = {} /\ missed' = {} /\ flag' = FALSE
  /\ UNCHANGED <<library, directory, restarts>>

(* The watcher's task gets to run.  Without a directory it falls back on   *)
(* signals; without the library it logs that it does, and ends.            *)
Watch ==
  /\ phase = "loaded"
  /\ \/ \A f \in Files : file[f] = Gone /\ phase' = "signals"
     \/ phase' = IF library THEN "watching" ELSE "blind"
  /\ UNCHANGED <<library, directory, changed, missed, flag, running, routes, restarts>>

Known == {configs[k].name : k \in DOMAIN configs}

\* Slip: what was added is not remembered.
AppliedForgets(cs) ==
  /\ configs' = [k \in DOMAIN configs |->
                   LET new == {j \in DOMAIN cs : cs[j].name = configs[k].name}
                   IN  IF new = {} THEN configs[k] ELSE cs[Max(new)]]
  /\ loops' = Started(loops, Picked(cs, {j \in DOMAIN cs : cs[j].name \notin Known}))

(* _apply_connector_changes: a known name gets a new entry and keeps its   *)
(* loops, a new one gets loops, and nothing is taken away.                 *)
Applied(cs) ==
  LET added == Picked(cs, {j \in DOMAIN cs : cs[j].name \notin Known})
      first(k) == \A j \in 1 .. (k - 1) : configs[j].name # configs[k].name
      kept == [k \in DOMAIN configs |->
                 LET new == {j \in DOMAIN cs : cs[j].name = configs[k].name /\ cs[j] # configs[k]}
                 IN  IF new = {} \/ ~first(k) THEN configs[k] ELSE cs[Max(new)]]
  IN  configs' = kept \o added /\ loops' = Started(loops, added)

\* Slip: nothing is applied as long as one of the files is not to be read.
OnFileChangeAll ==
  /\ phase = "watching" /\ changed # {} /\ changed' = {}
  /\ IF \A f \in changed : Readable(f) THEN Applied(Loaded(changed)) ELSE UNCHANGED running
  /\ UNCHANGED <<library, directory, phase, missed, flag, routes, restarts>>

(* The changed files in the order of a set of paths; those that cannot be  *)
(* read are logged.                                                        *)
OnFileChange ==
  /\ phase = "watching" /\ changed # {} /\ changed' = {}
  /\ \E order \in SetToSeqs({f \in changed : Readable(f)}) :
       Applied([k \in DOMAIN order |-> file[order[k]]])
  /\ UNCHANGED <<library, directory, phase, missed, flag, routes, restarts>>

OnSignal ==
  /\ phase = "signals" /\ flag /\ flag' = FALSE /\ missed' = {}
  /\ Applied(Loaded(Files))
  /\ UNCHANGED <<library, directory, phase, changed, routes, restarts>>

Restart ==
  /\ phase # "off" /\ restarts < MaxRestarts /\ restarts' = restarts + 1
  /\ phase' = "off" /\ changed' = {} /\ missed' = {} /\ flag' = FALSE
  /\ configs' = <<>> /\ loops' = NoLoops /\ routes' = {}
  /\ UNCHANGED <<library, directory>>

Works == Load \/ Watch \/ OnFileChange \/ OnSignal

Contents == {Gone, Bad} \cup {c \in Connectors : c.rev = edits + 1}
Next ==
  \/ Works \/ Signal \/ Restart
  \/ \E f \in Files, c \in Contents : Edit(f, c)

Spec == Init /\ [][Next]_vars
FairSpec == Spec /\ WF_vars(Works)

----------------------------------------------------------------------------
(* Properties. *)

Polled(name, t) == {l \in DOMAIN loops : l.name = name /\ l.datatype = t /\ loops[l] > 0}

(* Whatever is edited, broken, deleted or brought back, a datatype never   *)
(* has two loops.  Refuted without Distinct: two files that arrive with    *)
(* one new name.                                                           *)
OneLoopPerDatatype ==
  \A n \in Names, t \in Datatypes :
    Cardinality(Polled(n, t)) <= 1 /\ \A l \in Polled(n, t) : loops[l] = 1

(* In the end the daemon knows every readable file as it is, and polls the *)
(* connector in it, unless nobody told it of the last change.              *)
NoticedIsKnown ==
  <>[](\A f \in Files :
         Readable(f) /\ f \notin missed =>
           file[f] \in ToSet(configs) /\ \E t \in Datatypes : Polled(file[f].name, t) # {})

(* A change takes effect with the connector's next sync cycle (GOAL.md:43, *)
(* daemon.py:1073).  Refuted: loops keep what they were started with.      *)
ReloadTakesEffect ==
  <>[](phase = "watching" =>
         \A f \in Files : Readable(f) /\ f \notin missed =>
           \A t \in file[f].datatypes : \E l \in Polled(file[f].name, t) : l.rev = file[f].rev)

(* Without the library a signal reloads (watcher.py:42, daemon.py:1073).   *)
(* Refuted: the watcher's task has ended.                                  *)
SignalIsTaken == flag ~> ~flag

(* Whoever is polled can post its events.  Refuted: routes are made at the *)
(* start only.                                                             *)
PolledHasRoute == \A l \in DOMAIN loops : loops[l] > 0 => l.name \in routes
=============================================================================
