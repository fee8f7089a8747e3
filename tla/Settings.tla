------------------------------ MODULE Settings ------------------------------
(***************************************************************************)
(* flux init, flux config and flux remote: how a directory becomes a       *)
(* repository, and the settings kept in .flux/config.                      *)
(*                                                                         *)
(*   made     the parts of .flux that are there                            *)
(*   config   the settings in the file .flux/config, or NoConfig           *)
(*   proc     process -> the command it is running, and the Repository     *)
(*            object it runs it on: the settings in memory                 *)
(*   behind   history, not in the code: the processes whose settings in    *)
(*            memory are older than the file                               *)
(*   met      history: the processes that write the file, and another has  *)
(*            renamed it since they began                                  *)
(*   crashed  history, not in the code: some command ended half-way        *)
(*                                                                         *)
(* The file is written through config.tmp, a name all processes share: of  *)
(* two commands that write it at once, one may rename what the other has   *)
(* just truncated, or has written, and the other goes on writing what is   *)
(* now the file (AtomicFile has the system calls).  A command is taken to  *)
(* write the file from the step that leads to it to its rename; one killed *)
(* there, to be killed after those it met renamed.                         *)
(*                                                                         *)
(* Settings are the hash algorithm, the user's name and e-mail, and the    *)
(* remotes, which load_config reads back under the name that ends at the   *)
(* first ".url" of the line, or not at all ("=" in a name).                *)
(***************************************************************************)
EXTENDS Naturals, FiniteSets

CONSTANTS
    Proc,
    User,          \* values of user.name and user.email
    Unset,         \* their value in a new repository: empty
    Remote, Url,   \* names and URLs given to flux remote
    ReadAs,        \* name -> the name load_config reads it back as, or None
    Later,         \* pairs of names <<m, n>>: the map lists m before n
    Algorithm,
    Garbled,       \* what load_config may make of a file that two commands left
                   \*   empty, cut short or mixed
    None, NoConfig

ASSUME SettingsAssumption ==
    /\ None \notin Remote
    /\ ReadAs \in [Remote -> Remote \cup {None}]
    /\ Unset \in User

(* The map is ordered: of names that read back as one, one is listed last. *)
ASSUME OrderAssumption ==
    \A S \in SUBSET Remote :
        S # {} /\ IsFiniteSet(S) /\ (\A m, n \in S : ReadAs[m] = ReadAs[n])
        => \E m \in S : \A o \in S \ {m} : <<o, m>> \in Later

SettingsOf == [algo : Algorithm, name : User, email : User,
               remotes : UNION {[R -> Url] : R \in SUBSET Remote}]

ASSUME NoConfigAssumption == NoConfig \notin SettingsOf

ASSUME GarbledAssumption ==
    /\ Garbled \subseteq SettingsOf
    /\ \A s \in Garbled : IsFiniteSet(DOMAIN s.remotes)

VARIABLES made, config, proc, behind, met, crashed

setvars == <<made, config, proc, behind, met, crashed>>

Part == {"flux", "directories", "description", "index", "HEAD"}

NoCommand == [pc |-> "idle"]

Fresh(algo) ==
    [algo |-> algo, name |-> Unset, email |-> Unset, remotes |-> [n \in {} |-> None]]

SettingsInit ==
    /\ made = {} /\ config = NoConfig
    /\ proc = [p \in Proc |-> NoCommand]
    /\ behind = {} /\ met = {} /\ crashed = FALSE

---------------------------------------------------------------------------
(* load_config.  Two lines read back under one name: the later one stays. *)
ReadBack(remotes) ==
    [n \in {ReadAs[m] : m \in DOMAIN remotes} \ {None} |->
       LET same == {m \in DOMAIN remotes : ReadAs[m] = n}
       IN remotes[CHOOSE m \in same : \A o \in same \ {m} : <<o, m>> \in Later]]

(* Mutant: the remotes are not loaded. *)
ParsedUser(file) == [file EXCEPT !.remotes = [n \in {} |-> None]]

Parsed(file) == [file EXCEPT !.remotes = ReadBack(@)]

Writers == {p \in Proc : proc[p].pc \in {"config", "saving"}}

(* save_config writes every setting in memory; the file is then what one of *)
(* its writers wrote, or garbled if there were two.                         *)
SaveConfig(p) ==
    /\ \/ \E q \in Writers : config' = proc[q].settings
       \/ (Writers # {p} \/ p \in met) /\ config' \in Garbled
    /\ met' = Writers \ {p}
    /\ behind' = {q \in Proc \ {p} : proc[q].pc \in {"opened", "saving"}}

(* Repository::init refuses a directory that has a .flux. *)
InitStart(p, algo) ==
    /\ proc[p] = NoCommand
    /\ "flux" \notin made
    /\ proc' = [proc EXCEPT ![p] = [pc |-> "structure", settings |-> Fresh(algo)]]
    /\ UNCHANGED <<made, config, behind, met, crashed>>

(* Mutant: init goes on when the first directory is there. *)
InitStructureOne(p) ==
    /\ proc[p].pc = "structure"
    /\ made' = made \cup {"flux"}
    /\ proc' = [proc EXCEPT ![p].pc = "config"]
    /\ UNCHANGED <<config, behind, met, crashed>>

(* create_structure, in its order. *)
InitStructure(p) ==
    /\ proc[p].pc = "structure"
    /\ \/ /\ "flux" \notin made /\ made' = made \cup {"flux"} /\ proc' = proc
       \/ /\ "flux" \in made /\ "directories" \notin made
          /\ made' = made \cup {"directories"} /\ proc' = proc
       \/ /\ {"flux", "directories"} \subseteq made
          /\ made' = made \cup {"description"}
          /\ proc' = [proc EXCEPT ![p].pc = "config"]
    /\ UNCHANGED <<config, behind, met, crashed>>

InitConfig(p) ==
    /\ proc[p].pc = "config"
    /\ SaveConfig(p)
    /\ proc' = [proc EXCEPT ![p].pc = "index"]
    /\ UNCHANGED <<made, crashed>>

(* Mutant: init ends without a HEAD. *)
InitIndexLast(p) ==
    /\ proc[p].pc = "index"
    /\ made' = made \cup {"index"}
    /\ proc' = [proc EXCEPT ![p] = NoCommand]
    /\ UNCHANGED <<config, behind, met, crashed>>

InitIndex(p) ==
    /\ proc[p].pc = "index"
    /\ made' = made \cup {"index"}
    /\ proc' = [proc EXCEPT ![p].pc = "HEAD"]
    /\ UNCHANGED <<config, behind, met, crashed>>

InitHead(p) ==
    /\ proc[p].pc = "HEAD"
    /\ made' = made \cup {"HEAD"}
    /\ proc' = [proc EXCEPT ![p] = NoCommand]
    /\ behind' = behind \ {p}
    /\ UNCHANGED <<config, met, crashed>>

(* Repository::open: a .flux without a config is an error.  The index file *)
(* is made if it is not there.                                             *)
OpenRepo(p) ==
    /\ proc[p] = NoCommand
    /\ "flux" \in made /\ config # NoConfig
    /\ made' = made \cup {"index"}
    /\ proc' = [proc EXCEPT ![p] = [pc |-> "opened", settings |-> Parsed(config)]]
    /\ behind' = behind \ {p}
    /\ UNCHANGED <<config, met, crashed>>

Changed(p, settings) ==
    /\ proc[p].pc = "opened"
    /\ proc' = [proc EXCEPT ![p] = [pc |-> "saving", settings |-> settings]]
    /\ UNCHANGED <<made, config, behind, met, crashed>>

(* flux config user.name and user.email: set_user_info. *)
SetName(p, v) == Changed(p, [proc[p].settings EXCEPT !.name = v])
SetEmail(p, v) == Changed(p, [proc[p].settings EXCEPT !.email = v])

(* flux remote add and remove. *)
AddRemote(p, n, u) ==
    Changed(p, [proc[p].settings EXCEPT !.remotes =
        [m \in DOMAIN @ \cup {n} |-> IF m = n THEN u ELSE @[m]]])

RemoveRemote(p, n) ==
    Changed(p, [proc[p].settings EXCEPT !.remotes = [m \in DOMAIN @ \ {n} |-> @[m]]])

(* The end of each of them. *)
Save(p) ==
    /\ proc[p].pc = "saving"
    /\ SaveConfig(p)
    /\ proc' = [proc EXCEPT ![p] = NoCommand]
    /\ UNCHANGED <<made, crashed>>

(* Any other command: it reads the settings and ends. *)
OnlyReads(p) ==
    /\ proc[p].pc = "opened"
    /\ proc' = [proc EXCEPT ![p] = NoCommand]
    /\ behind' = behind \ {p}
    /\ UNCHANGED <<made, config, met, crashed>>

(* Killed, or ended by an exception: the rename fails when another command *)
(* has renamed the temporary.                                              *)
SettingsCrash(p) ==
    /\ proc[p] # NoCommand
    /\ proc' = [proc EXCEPT ![p] = NoCommand]
    /\ behind' = behind \ {p} /\ met' = met \ {p}
    /\ crashed' = TRUE
    /\ UNCHANGED <<made, config>>

InitStep(p) ==
    InitStructure(p) \/ InitConfig(p) \/ InitIndex(p) \/ InitHead(p)

SettingsNext ==
    \E p \in Proc :
        \/ \E algo \in Algorithm : InitStart(p, algo)
        \/ InitStep(p)
        \/ OpenRepo(p) \/ OnlyReads(p) \/ Save(p)
        \/ \E v \in User : SetName(p, v) \/ SetEmail(p, v)
        \/ \E n \in Remote : RemoveRemote(p, n) \/ \E u \in Url : AddRemote(p, n, u)
        \/ SettingsCrash(p)

SettingsSpec == SettingsInit /\ [][SettingsNext]_setvars

---------------------------------------------------------------------------
(* Type invariant. *)
SettingsTypeOK ==
    /\ made \subseteq Part
    /\ config \in SettingsOf \cup {NoConfig}
    /\ \A p \in Proc : proc[p] # NoCommand =>
        /\ proc[p].pc \in {"structure", "config", "index", "HEAD", "opened", "saving"}
        /\ proc[p].settings \in SettingsOf
    /\ behind \subseteq {p \in Proc : proc[p] # NoCommand}
    /\ met \subseteq Writers

(* A directory that can neither be opened nor initialised, or has no HEAD, *)
(* and no command is at work on it.                                        *)
Stuck ==
    /\ "flux" \in made /\ (config = NoConfig \/ "HEAD" \notin made)
    /\ \A p \in Proc : proc[p].pc \in {"idle", "opened", "saving"}

(* What can be opened is a repository: a command that finds a config finds *)
(* the directories too, and a HEAD means that nothing is missing.  True of *)
(* two inits at once, and after any crash.  What is stuck was left so by a *)
(* command that was killed or failed half-way: nothing in flux repairs it.  *)
OpensWhole ==
    /\ config # NoConfig => {"flux", "directories", "description"} \subseteq made
    /\ "HEAD" \in made => config # NoConfig /\ "index" \in made
    /\ Stuck => crashed

(* The remotes that survive a command that opens the repository: those     *)
(* whose names read back as themselves, and as which no other name reads.  *)
Plain(remotes) ==
    {n \in DOMAIN remotes : \A m \in DOMAIN remotes : ReadAs[m] = n <=> m = n}

Differences(c, d) ==
    {x \in {"name"} : d.name # c.name} \cup {x \in {"email"} : d.email # c.email}
    \cup {n \in Plain(c.remotes) :
            n \notin DOMAIN d.remotes \/ d.remotes[n] # c.remotes[n]}

(* A command that changes one setting leaves the others, if no command has *)
(* written the file since it read it and none is writing it at the same    *)
(* time: the algorithm never changes, one of name, e-mail and remotes does, *)
(* and the remotes that read back as themselves stay.  The two conditions   *)
(* are needed: whole-file writes by two commands lose the first one's       *)
(* change, and two at once may leave a file from which every setting is     *)
(* gone.  A file so garbled is a setting like another to what comes later.  *)
OneAtATime ==
    [][\A p \in Proc :
        proc[p].pc = "saving" /\ p \notin behind /\ Writers = {p} /\ config' # config
        => /\ config'.algo = config.algo
           /\ \A x, y \in Differences(config, config') : x = y]_setvars
=============================================================================
