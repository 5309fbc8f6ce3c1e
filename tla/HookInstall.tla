----------------------------- MODULE HookInstall -----------------------------
(***************************************************************************)
(* Installing and removing the Git hooks of one checkout                    *)
(* (src/nix/control/hook_admin.go): two bridges, a record of ownership and  *)
(* up to three configuration files are replaced one by one, on a first      *)
(* installation also moving the repository's identity from the shared file  *)
(* to the primary worktree's.  Git reads these files at every moment.       *)
(***************************************************************************)
EXTENDS Integers, Sequences, FiniteSets

CONSTANTS MaxAdmins, \* installations and removals
          MaxTouches \* changes of the files by other programs

ASSUME HookAssumption == MaxAdmins \in Nat /\ MaxTouches \in Nat

VARIABLES ownConfig, \* the checkout is a linked worktree, with a file of its own
          admin,     \* the running operation: kind, place, position in its order
          files,     \* contents of the files
          locks,     \* configuration files whose .lock exists, and whose it is
          old,       \* the files as the operation read them
          target,    \* what it will make of them
          published,\* places in its order of the files written so far
          dirty,     \* files changed by others since the operation read them
          admins, touches

hookVars == <<ownConfig, admin, files, locks, old, target, published, dirty, admins, touches>>

Bridges == {"pre-commit", "pre-push"}
Configs == {"primary", "selected", "shared"}
HookFiles == Bridges \cup {"ownership"} \cup Configs
\* A configuration: hooksPath, repository identity, extensions.worktreeConfig.
Config == [hooks : {"none", "target", "foreign"}, identity : BOOLEAN, ext : BOOLEAN]
NoConfig == [hooks |-> "none", identity |-> FALSE, ext |-> FALSE]
FileSet == [bridge : [Bridges -> {"none", "ours", "edited"}], owner : BOOLEAN,
            config : [Configs -> Config]]
AdminPlaces == {"idle", "check", "lock", "recheck", "read", "publish", "verify", "rollback",
                "done", "failed", "killed"}

HookTypeOK ==
  /\ ownConfig \in BOOLEAN
  /\ admin \in [kind : {"install", "remove"}, pc : AdminPlaces, at : 1..7]
  /\ files \in FileSet /\ old \in FileSet /\ target \in FileSet
  /\ locks \in [Configs -> {"free", "admin", "git", "stale"}]
  /\ published \subseteq 1..6 /\ dirty \subseteq HookFiles
  /\ admins \in 0..MaxAdmins /\ touches \in 0..MaxTouches

\* The file of this checkout: the primary worktree has no other.
Own(lk) == IF lk THEN "selected" ELSE "primary"
\* A repository without hooks, or with another manager's in the shared file, and
\* its identity there; or one whose worktrees have configuration already.
Repository(lk, ext, hooks) ==
  [bridge |-> [b \in Bridges |-> "none"], owner |-> FALSE,
   config |-> [c \in Configs |->
     CASE c = "shared" -> [hooks |-> hooks, identity |-> ~ext, ext |-> ext]
       [] c = "primary" -> [NoConfig EXCEPT !.identity = ext]
       [] c = "selected" -> NoConfig]]

HookInit ==
  /\ ownConfig \in BOOLEAN
  /\ \E ext \in BOOLEAN, hooks \in {"none", "foreign"} : files = Repository(ownConfig, ext, hooks)
  /\ admin = [kind |-> "install", pc |-> "idle", at |-> 1]
  /\ locks = [c \in Configs |-> "free"] /\ old = files /\ target = files
  /\ published = {} /\ dirty = {} /\ admins = 0 /\ touches = 0

----------------------------------------------------------------------------
\* What Git makes of the files: the hooks of this checkout, the identity of the
\* primary one.
HooksOf(fs) ==
  LET own == fs.config[Own(ownConfig)] shared == fs.config["shared"] IN
  IF shared.ext /\ own.hooks # "none" THEN own.hooks ELSE shared.hooks
IdentityOf(fs) ==
  fs.config["shared"].identity \/ (fs.config["shared"].ext /\ fs.config["primary"].identity)

Intact(fs) == \A b \in Bridges : fs.bridge[b] = "ours"
\* hookCheck: no modified bridge, no other manager's setting.
Allowed(fs) == (\A b \in Bridges : fs.bridge[b] # "edited") /\ HooksOf(fs) \in {"none", "target"}

AtPlace(pc) == admin.pc = pc
Place(pc) == admin' = [admin EXCEPT !.pc = pc]
Unlocked == [c \in Configs |-> IF locks[c] = "admin" THEN "free" ELSE locks[c]]
\* Everything but the kill removes the locks it made.
GivesUp == Place("failed") /\ locks' = Unlocked

BeginAdmin(kind) ==
  /\ admin.pc \in {"idle", "done", "failed", "killed"} /\ admins < MaxAdmins
  /\ admins' = admins + 1 /\ admin' = [kind |-> kind, pc |-> "check", at |-> 1]
  /\ published' = {} /\ dirty' = {} /\ old' = files
  /\ UNCHANGED <<ownConfig, files, locks, target, touches>>
CheckFirst ==
  /\ AtPlace("check")
  /\ IF admin.kind = "install" /\ ~Allowed(files) THEN GivesUp
     ELSE Place("lock") /\ UNCHANGED locks
  /\ UNCHANGED <<ownConfig, files, old, target, published, dirty, admins, touches>>
\* Git's locks of all files to be changed, created exclusively in a fixed order.
LockConfigs ==
  LET needed == IF admin.kind = "remove" THEN {Own(ownConfig)} ELSE Configs IN
  /\ AtPlace("lock")
  /\ IF \A c \in needed : locks[c] = "free"
     THEN /\ locks' = [c \in Configs |-> IF c \in needed THEN "admin" ELSE locks[c]]
          /\ Place("recheck")
     ELSE GivesUp
  /\ UNCHANGED <<ownConfig, files, old, target, published, dirty, admins, touches>>
CheckAgain ==
  /\ AtPlace("recheck")
  /\ IF admin.kind = "install" /\ ~Allowed(files) THEN GivesUp
     ELSE Place("read") /\ UNCHANGED locks
  /\ UNCHANGED <<ownConfig, files, old, target, published, dirty, admins, touches>>

\* Enabling worktree configuration must not wake up settings nobody looked at.
Dormant(fs) ==
  ~fs.config["shared"].ext
    /\ \E c \in {"primary", "selected"} : fs.config[c].hooks # "none" \/ fs.config[c].identity
\* Installed: the extension on, the identity in the primary's file, the setting
\* in the checkout's own.
Installed(fs) ==
  [bridge |-> [b \in Bridges |-> "ours"], owner |-> TRUE,
   config |-> [c \in Configs |->
     LET was == fs.config[c] first == ~fs.config["shared"].ext IN
     [hooks |-> IF c = Own(ownConfig) THEN "target" ELSE was.hooks,
      identity |-> CASE first /\ c = "primary" -> fs.config["shared"].identity
                     [] first /\ c = "shared" -> FALSE
                     [] OTHER -> was.identity,
      ext |-> was.ext \/ c = "shared"]]]
\* Removed: its own setting, bridges and record, and nothing else.
Removed(fs) ==
  [bridge |-> [b \in Bridges |-> "none"], owner |-> FALSE,
   config |-> [fs.config EXCEPT ![Own(ownConfig)].hooks = "none"]]

\* The new contents are prepared in copies.
ReadHookFiles ==
  /\ AtPlace("read") /\ old' = files /\ dirty' = {}
  /\ IF \/ admin.kind = "install" /\ Dormant(files)
        \/ admin.kind = "remove" /\ ~(HooksOf(files) = "target" /\ Intact(files)
                                      /\ files.config[Own(ownConfig)].hooks = "target")
     THEN GivesUp /\ UNCHANGED target
     ELSE /\ Place("publish") /\ UNCHANGED locks
          /\ target' = IF admin.kind = "install" THEN Installed(files) ELSE Removed(files)
  /\ UNCHANGED <<ownConfig, files, published, admins, touches>>

\* Mutated form: configuration and bridges are published in any fixed order.
Order_Wrong ==
  IF admin.kind = "install"
  THEN <<"shared", "primary", "selected", "pre-commit", "pre-push", "ownership">>
  ELSE <<"pre-commit", "pre-push", "ownership", Own(ownConfig)>>

\* Activation is last: bridges before configuration, the shared file at the end.
\* A removal goes the other way.
Order ==
  IF admin.kind = "install"
  THEN <<"pre-commit", "pre-push", "ownership", "primary", "selected", "shared">>
  ELSE <<Own(ownConfig), "pre-commit", "pre-push", "ownership">>

Part(fs, f) ==
  CASE f \in Bridges -> <<fs.bridge[f]>>
    [] f = "ownership" -> <<fs.owner>>
    [] f \in Configs -> <<fs.config[f]>>
With(fs, f, from) ==
  CASE f \in Bridges -> [fs EXCEPT !.bridge[f] = from.bridge[f]]
    [] f = "ownership" -> [fs EXCEPT !.owner = from.owner]
    [] f \in Configs -> [fs EXCEPT !.config[f] = from.config[f]]

\* Each file is compared with what was read and then replaced, if it changes.
PublishHooks ==
  LET f == Order[admin.at] IN
  /\ AtPlace("publish") /\ admin.at <= Len(Order)
  /\ IF Part(files, f) # Part(old, f)
     THEN Place("rollback") /\ UNCHANGED <<files, published>>
     ELSE /\ admin' = [admin EXCEPT !.at = @ + 1, !.pc = IF admin.at = Len(Order)
                                                         THEN "verify" ELSE "publish"]
          /\ IF Part(old, f) = Part(target, f) THEN UNCHANGED <<files, published>>
             ELSE files' = With(files, f, target) /\ published' = published \cup {admin.at}
  /\ UNCHANGED <<ownConfig, locks, old, target, dirty, admins, touches>>
\* A write may fail, and leaves its file as it was.
PublishFails ==
  /\ AtPlace("publish") /\ Place("rollback")
  /\ UNCHANGED <<ownConfig, files, locks, old, target, published, dirty, admins, touches>>
\* Git is asked in the end whether it selects what was installed.
Verify ==
  /\ AtPlace("verify")
  /\ IF admin.kind = "install" /\ ~(HooksOf(files) = "target" /\ Intact(files))
     THEN Place("rollback") /\ UNCHANGED locks
     ELSE Place("done") /\ locks' = Unlocked
  /\ UNCHANGED <<ownConfig, files, old, target, published, dirty, admins, touches>>

\* Mutated form: what was published first is restored first.
LastOf_Wrong(S) == CHOOSE i \in S : \A j \in S : i <= j

\* Files are restored newest first.
LastOf(S) == CHOOSE i \in S : \A j \in S : j <= i

\* Mutated form: the recovery loop stops before the first published file.
Recovered_Wrong == Cardinality(published) <= 1

\* The recovery loop runs down to the first published file.
Recovered == published = {}

Rollback ==
  /\ AtPlace("rollback")
  /\ IF Recovered THEN GivesUp /\ UNCHANGED <<files, published>>
     ELSE LET i == LastOf(published) IN
          /\ files' = With(files, Order[i], old) /\ published' = published \ {i}
          /\ UNCHANGED <<admin, locks>>
  /\ UNCHANGED <<ownConfig, old, target, dirty, admins, touches>>

AdminKilled ==
  /\ admin.pc \notin {"idle", "done", "failed", "killed"} /\ Place("killed")
  /\ locks' = [c \in Configs |-> IF locks[c] = "admin" THEN "stale" ELSE locks[c]]
  /\ UNCHANGED <<ownConfig, files, old, target, published, dirty, admins, touches>>
LocksCleared ==
  /\ \E c \in Configs : locks[c] = "stale"
  /\ locks' = [c \in Configs |-> IF locks[c] = "stale" THEN "free" ELSE locks[c]]
  /\ UNCHANGED <<ownConfig, admin, files, old, target, published, dirty, admins, touches>>

\* Another program: `git config` under its lock, an editor of a bridge without one.
GitConfig(c, hooks) ==
  /\ touches < MaxTouches /\ touches' = touches + 1 /\ locks[c] = "free"
  /\ c # "selected" \/ ownConfig
  /\ files.config[c].hooks # hooks /\ files' = [files EXCEPT !.config[c].hooks = hooks]
  /\ dirty' = dirty \cup {c}
  /\ UNCHANGED <<ownConfig, admin, locks, old, target, published, admins>>
EditBridge(b) ==
  /\ touches < MaxTouches /\ touches' = touches + 1
  /\ files.bridge[b] = "ours" /\ files' = [files EXCEPT !.bridge[b] = "edited"]
  /\ dirty' = dirty \cup {b}
  /\ UNCHANGED <<ownConfig, admin, locks, old, target, published, admins>>

HookNext ==
  \/ CheckFirst \/ LockConfigs \/ CheckAgain \/ ReadHookFiles \/ PublishHooks \/ PublishFails \/ Verify
  \/ Rollback \/ AdminKilled \/ LocksCleared
  \/ \E kind \in {"install", "remove"} : BeginAdmin(kind)
  \/ \E c \in Configs, hooks \in {"none", "foreign"} : GitConfig(c, hooks)
  \/ \E b \in Bridges : EditBridge(b)
HookSpec == HookInit /\ [][HookNext]_hookVars

----------------------------------------------------------------------------
\* Whenever Git selects the bridges, all of them are there: also between two
\* writes, in the middle of a rollback, and after a kill.
ActiveHooksAreWhole ==
  HooksOf(files) = "target" => \A b \in Bridges : files.bridge[b] # "none"

\* The repository keeps its identity through activation, failure and kill.
IdentityIsKept == IdentityOf(files)

\* An operation that fails leaves every file as it was, but for what other
\* programs changed meanwhile.
FailureRestores ==
  admin.pc = "failed" => \A f \in HookFiles \ dirty : Part(files, f) = Part(old, f)
=============================================================================
