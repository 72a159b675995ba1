------------------------------ MODULE HgctlConfig ------------------------------
(***************************************************************************)
(* The configuration of hgctl (hgctl-go/internal: config, commands/context, *)
(* commands/keystore, commands/signer, commands/telemetry).  Every command *)
(* is a process of its own that reads ~/.hgctl/config.yaml, works on the   *)
(* copy, perhaps for minutes while it asks the user, and writes the whole  *)
(* file back: commands overlap, die half way, and find the file truncated. *)
(* A command that fails before it writes changes nothing and is no step.   *)
(***************************************************************************)
EXTENDS Naturals, FiniteSets

CONSTANTS
    Procs,          \* terminals in which a command may run
    Names,          \* names of contexts, "default" among them
    KeyNames,       \* names of keystores
    Starts,         \* what earlier commands may have left: config.yaml and key files
    MaxCommands,    \* bound on the commands started
    MaxFaults       \* bound on crashes and torn writes

\* "external" stands for the directories that imported keystores come from.
ASSUME HgctlConstants ==
    /\ "default" \in Names /\ "" \notin Names /\ "external" \notin Names
    /\ MaxCommands \in Nat /\ MaxFaults \in Nat

VARIABLES
    file,           \* config.yaml
    keyFile,        \* the key.json of each created keystore
    proc,           \* the command of each terminal
    commands,       \* how many were started
    faults,         \* crashes and torn writes so far
    raced           \* for the properties: key files that two commands wrote at once

hgctlVars == <<file, keyFile, proc, commands, faults, raced>>

Types == {"ecdsa", "bn254"}

\* A created keystore lies under the name of its context; an imported one elsewhere.
Paths == {<<n, k>> : n \in Names, k \in KeyNames}
External(t) == <<"external", t>>

NoKey == [name |-> "", path |-> <<"", "">>, type |-> ""]

\* ECDSAKeyConfig and KeystoreReference: nil, an environment variable, a remote signer or
\* a keystore, of which a copy of the reference is kept.
Unset == [kind |-> "nil", key |-> NoKey]
FromEnv == [kind |-> "env", key |-> NoKey]
Remote == [kind |-> "web3signer", key |-> NoKey]
InKeystore(k) == [kind |-> "keystore", key |-> k]

NoSystem == [set |-> FALSE, ecdsa |-> Unset, bn254 |-> Unset]

\* A context: whether the properties of `context set' have values, the experimental flag,
\* the keystores it lists, and its signers.
NewContext == [props |-> FALSE, experimental |-> FALSE, keystores |-> {}, op |-> Unset,
               sys |-> NoSystem]

\* `cut' is for the properties: made from a text that is not what one command wrote.
Config(current, contexts) == [current |-> current, contexts |-> contexts, nil |-> FALSE,
                              telemetry |-> FALSE, cut |-> FALSE]

Single(n, ctx) == [m \in {n} |-> ctx]

defaultConfig == Config("default", Single("default", NewContext))

\* What yaml makes of an empty file: no error, and a nil map of contexts.
EmptyConfig == [Config("", [m \in {} |-> NewContext]) EXCEPT !.nil = TRUE]

Absent == [kind |-> "absent", cfg |-> EmptyConfig]
Truncated == [kind |-> "empty", cfg |-> EmptyConfig]
Complete(c) == [kind |-> "ok", cfg |-> c]
\* A text that does not load, of which c is what it would have been.
Corrupt(c) == [kind |-> "corrupt", cfg |-> c]

\* What these values range over.
Keys == [name : KeyNames \cup {""}, type : Types \cup {""},
         path : Paths \cup {External(t) : t \in Types} \cup {<<"", "">>}]
Signers == [kind : {"nil", "env", "web3signer", "keystore"}, key : Keys]
Contexts == [props : BOOLEAN, experimental : BOOLEAN, keystores : SUBSET Keys, op : Signers,
             sys : [set : BOOLEAN, ecdsa : Signers, bn254 : Signers]]
ConfigsOf(D) == [current : Names \cup {""}, contexts : [D -> Contexts], nil : BOOLEAN,
                 telemetry : BOOLEAN, cut : BOOLEAN]
FilesOf(D) == [kind : {"absent", "empty", "corrupt", "ok"}, cfg : ConfigsOf(D)]
KeyFiles == [Paths -> {"none", "partial"} \cup Types]

\* A wizard that is not running, and a command that is not.
NoWizard == [type |-> "", stage |-> "", list |-> "", offers |-> {}, keys |-> {}, keyType |-> "",
             signer |-> "", key |-> NoKey]
AtPrompt == [at |-> "idle", cfg |-> EmptyConfig, name |-> "", use |-> FALSE, key |-> NoKey,
             wizard |-> NoWizard]

Has(c, n) == n \in DOMAIN c.contexts

\* A configuration names a current context that it holds, ...
CurrentIn(c) == c.current # "" => Has(c, c.current)

\* ... GetOperatorPrivateKey and GetSystemBN254KeystorePath find the keystore of a signer by
\* name among the context's own, ...
Found(ctx, s) == s.kind = "keystore" => \E k \in ctx.keystores : k = s.key
SignersIn(c) ==
    \A n \in DOMAIN c.contexts :
        LET ctx == c.contexts[n]
        IN Found(ctx, ctx.op) /\ Found(ctx, ctx.sys.ecdsa) /\ Found(ctx, ctx.sys.bn254)

\* ... and the keystores that it lists have their key on disk, but for the lost ones.
KeysIn(c, keys, lost) ==
    \A n \in DOMAIN c.contexts : \A k \in c.contexts[n].keystores :
        k.path \in Paths \ lost => keys[k.path] \in Types

ASSUME StartsAssumption ==
    \A s \in Starts :
        /\ \E D \in SUBSET Names : s.file \in FilesOf(D)
        /\ s.keys \in KeyFiles
        /\ s.file.cfg.cut \/ (CurrentIn(s.file.cfg) /\ SignersIn(s.file.cfg))
        /\ KeysIn(s.file.cfg, s.keys, {})

HgctlInit ==
    /\ \E s \in Starts : file = s.file /\ keyFile = s.keys
    /\ proc = [p \in Procs |-> AtPrompt]
    /\ commands = 0 /\ faults = 0
    /\ raced = {}

-----------------------------------------------------------------------------
(* config.go *)

CanLoad == file.kind # "corrupt"

\* LoadConfig: a missing file is the default one, an empty file is no error.
LoadConfig == IF file.kind = "absent" THEN defaultConfig ELSE file.cfg

WithContext(c, n, ctx) ==
    [c EXCEPT !.contexts = [m \in DOMAIN c.contexts \cup {n} |->
                               IF m = n THEN ctx ELSE c.contexts[m]]]

\* LoadConfig, then the current context, or an error.
HasCurrent == CanLoad /\ Has(LoadConfig, LoadConfig.current)
Current == LoadConfig.contexts[LoadConfig.current]

StartsCommand(p) ==
    /\ proc[p].at = "idle" /\ commands < MaxCommands
    /\ commands' = commands + 1

Saving(p, c) == proc' = [proc EXCEPT ![p] = [AtPrompt EXCEPT !.at = "save", !.cfg = c]]

\* SaveConfig: os.WriteFile truncates the file ...
SaveBegins(p) ==
    /\ proc[p].at \in {"save", "saveOperator"}
    /\ file' = Truncated
    /\ proc' = [proc EXCEPT ![p].at = IF @ = "save" THEN "saving" ELSE "savingOperator"]
    /\ UNCHANGED <<keyFile, commands, faults, raced>>

Written(p) == [proc[p].cfg EXCEPT !.nil = FALSE]

\* What the last context of a text gets from the lines that follow when they are those of
\* another: keystores, and what it does not have itself.
Continued(ctx, other) ==
    {[ctx EXCEPT !.keystores = @ \cup K, !.sys = IF @.set THEN @ ELSE sys,
                 !.op = IF @ = Unset THEN op ELSE @, !.experimental = @ \/ other.experimental] :
        K \in {{}, other.keystores}, sys \in {NoSystem, other.sys}, op \in {Unset, other.op}}

\* The text of c with the end of another's after it: it may load, and there may be contexts
\* in it that only the other has, and its telemetry.
LeavesMixed(c, other) ==
    LET mixed == [c EXCEPT !.telemetry = @ \/ other.telemetry, !.cut = TRUE]
    IN \/ file' \in {Corrupt(c), Complete(mixed)}
       \/ \E last \in DOMAIN c.contexts, n \in DOMAIN other.contexts :
          \E more \in SUBSET (DOMAIN other.contexts \ DOMAIN c.contexts),
             ctx \in Continued(c.contexts[last], other.contexts[n]) :
             file' = Complete([mixed EXCEPT !.contexts =
                         [m \in DOMAIN c.contexts \cup more |->
                             IF m \notin DOMAIN c.contexts THEN other.contexts[m]
                             ELSE IF m = last THEN ctx ELSE c.contexts[m]]])

\* ... and writes it.  Over what another command wrote meanwhile, a shorter text leaves the
\* other's tail.
SaveEnds(p) ==
    /\ proc[p].at \in {"saving", "savingOperator"}
    /\ \/ file' = Complete(Written(p))
       \/ file.kind # "empty" /\ LeavesMixed(Written(p), file.cfg)
    /\ proc' = [proc EXCEPT ![p] = IF @.at = "saving" THEN AtPrompt
                                   ELSE [AtPrompt EXCEPT !.at = "wizardReload", !.name = proc[p].name]]
    /\ UNCHANGED <<keyFile, commands, faults, raced>>

\* A reference, cut: its type is gone, or its path too, or all of it (half of a value names
\* no file and no keystore).
CutKeys(k) == {NoKey, [NoKey EXCEPT !.name = k.name], [k EXCEPT !.type = ""]}

\* A list of them that ends with k, cut; any beginning of the list.
CutAt(keys, k) == {K \cup {cut} : K \in SUBSET (keys \ {k}), cut \in CutKeys(k)}
CutLists(keys) == (SUBSET keys) \cup UNION {CutAt(keys, k) : k \in keys}

CutSigners(s) == {Unset} \cup (IF s.kind = "keystore" THEN {InKeystore(k) : k \in CutKeys(s.key)} ELSE {})

\* What a beginning of a context's text loads as: its properties come first, then its
\* keystores, the system's keys, the operator's and the experimental flag.
CutContexts(ctx) ==
    {NewContext}
    \cup {[NewContext EXCEPT !.props = ctx.props, !.keystores = K] : K \in CutLists(ctx.keystores)}
    \cup {[ctx EXCEPT !.sys = [set |-> TRUE, ecdsa |-> Unset, bn254 |-> s], !.op = Unset,
                      !.experimental = FALSE] : s \in CutSigners(ctx.sys.bn254)}
    \cup {[ctx EXCEPT !.sys.ecdsa = s, !.op = Unset, !.experimental = FALSE] :
             s \in CutSigners(ctx.sys.ecdsa)}
    \cup {[ctx EXCEPT !.op = s, !.experimental = FALSE] : s \in CutSigners(ctx.op) \cup {ctx.op}}

\* A beginning of c's text: it may load, with the name of the current context first, which
\* alone may itself be cut, then the contexts, of which the last may be.
LeavesCut(c) ==
    \/ file' = Corrupt(c)
    \/ \E n \in Names \cup {""} : file' = Complete([EmptyConfig EXCEPT !.current = n, !.cut = TRUE])
    \/ \E S \in SUBSET DOMAIN c.contexts : \E last \in S : \E ctx \in CutContexts(c.contexts[last]) :
          file' = Complete([c EXCEPT !.telemetry = FALSE, !.cut = TRUE,
                      !.contexts = [m \in S |-> IF m = last THEN ctx ELSE c.contexts[m]]])

\* The disk fills up: a beginning of the text is left, and the command fails.
SaveTorn(p) ==
    /\ proc[p].at \in {"saving", "savingOperator"} /\ faults < MaxFaults
    /\ LeavesCut(Written(p))
    /\ proc' = [proc EXCEPT ![p] = AtPrompt]
    /\ faults' = faults + 1
    /\ UNCHANGED <<keyFile, commands, raced>>

\* The process dies: the user's Ctrl-C, a closed terminal, a panic.
Crash(p) ==
    /\ proc[p].at \in {"save", "saving", "saveOperator", "savingOperator", "writeKey"}
    /\ faults < MaxFaults
    /\ proc' = [proc EXCEPT ![p] = AtPrompt]
    /\ faults' = faults + 1
    /\ UNCHANGED <<file, keyFile, commands, raced>>

\* Before it writes anything, a command may fail or be given up at no cost.
GivesUp(p) ==
    /\ proc[p].at \in {"create", "copy", "password", "openKey", "signer", "wizardCheck", "wizard",
                       "wizardSave", "wizardReload"}
    /\ proc' = [proc EXCEPT ![p] = AtPrompt]
    /\ UNCHANGED <<file, keyFile, commands, faults, raced>>

-----------------------------------------------------------------------------
(* hgctl context *)

\* loadOrCreateConfig: any error of LoadConfig gives a new configuration.
loadOrCreateConfig == IF CanLoad THEN LoadConfig ELSE Config("", [m \in {} |-> NewContext])

\* The file is read first ...
ContextCreate(p) ==
    \E n \in Names, use \in BOOLEAN :
        /\ StartsCommand(p)
        /\ ~Has(loadOrCreateConfig, n)
        /\ proc' = [proc EXCEPT ![p] = [AtPrompt EXCEPT !.at = "create", !.cfg = loadOrCreateConfig,
                                                    !.name = n, !.use = use]]
        /\ UNCHANGED <<file, keyFile, faults, raced>>

\* ... then the user is asked for the URLs and both chains for their ids; only then is the
\* context added to what was read (a nil map panics).
SaveContext(p) ==
    /\ proc[p].at = "create" /\ ~proc[p].cfg.nil
    /\ LET c == WithContext(proc[p].cfg, proc[p].name, NewContext)
       IN Saving(p, IF proc[p].use THEN [c EXCEPT !.current = proc[p].name] ELSE c)
    /\ UNCHANGED <<file, keyFile, commands, faults, raced>>

\* deepCopyContext: neither the signers nor the experimental flag are copied.
deepCopyContext(ctx) == [NewContext EXCEPT !.props = ctx.props, !.keystores = ctx.keystores]

\* The name of the copy may be asked for, too.
ContextCopy(p) ==
    \E n \in Names, use \in BOOLEAN :
        /\ StartsCommand(p)
        /\ CanLoad /\ Has(LoadConfig, n)
        /\ proc' = [proc EXCEPT ![p] = [AtPrompt EXCEPT !.at = "copy", !.cfg = LoadConfig,
                                                    !.name = n, !.use = use]]
        /\ UNCHANGED <<file, keyFile, faults, raced>>

PerformContextCopy(p) ==
    /\ proc[p].at = "copy"
    /\ \E n \in Names \ DOMAIN proc[p].cfg.contexts :
          LET c == WithContext(proc[p].cfg, n, deepCopyContext(proc[p].cfg.contexts[proc[p].name]))
          IN Saving(p, IF proc[p].use THEN [c EXCEPT !.current = n] ELSE c)
    /\ UNCHANGED <<file, keyFile, commands, faults, raced>>

(* Slip: the current context may be deleted. *)
validateNotCurrentContextLax(c, n) == TRUE

validateNotCurrentContext(c, n) == n # c.current

ContextDelete(p) ==
    \E n \in Names :
        /\ StartsCommand(p)
        /\ CanLoad /\ Has(LoadConfig, n) /\ validateNotCurrentContext(LoadConfig, n)
        /\ Saving(p, [LoadConfig EXCEPT !.contexts =
                         [m \in DOMAIN LoadConfig.contexts \ {n} |-> LoadConfig.contexts[m]]])
        /\ UNCHANGED <<file, keyFile, faults, raced>>

ContextUse(p) ==
    \E n \in Names :
        /\ StartsCommand(p)
        /\ CanLoad /\ Has(LoadConfig, n)
        /\ Saving(p, [LoadConfig EXCEPT !.current = n])
        /\ UNCHANGED <<file, keyFile, faults, raced>>

\* The current context of what was read, changed.
SavingCurrent(p, ctx) == Saving(p, WithContext(LoadConfig, LoadConfig.current, ctx))

ContextSet(p) ==
    \E props, exp \in BOOLEAN :
        /\ StartsCommand(p) /\ HasCurrent
        /\ SavingCurrent(p, [Current EXCEPT !.props = @ \/ props, !.experimental = exp])
        /\ UNCHANGED <<file, keyFile, faults, raced>>

\* An error unless something was set.
ContextRemove(p) ==
    /\ StartsCommand(p) /\ HasCurrent /\ Current.props
    /\ SavingCurrent(p, [Current EXCEPT !.props = FALSE])
    /\ UNCHANGED <<file, keyFile, faults, raced>>

-----------------------------------------------------------------------------
(* hgctl telemetry *)

\* The whole file is read and saved, whatever else it held.
SavingTelemetry(p, on) ==
    /\ StartsCommand(p) /\ CanLoad
    /\ Saving(p, [LoadConfig EXCEPT !.telemetry = on])
    /\ UNCHANGED <<file, keyFile, faults, raced>>

EnableTelemetry(p) == SavingTelemetry(p, TRUE)

DisableTelemetry(p) == SavingTelemetry(p, FALSE)

\* applyTelemetryConfig reads the file after the choice was made.
TelemetryWizard(p) == \E choice \in BOOLEAN : SavingTelemetry(p, choice)

-----------------------------------------------------------------------------
(* hgctl keystore *)

Listed(ctx, name) == \E k \in ctx.keystores : k.name = name

\* The name must be new to the current context; then the user is asked for a password.
KeystoreCreate(p) ==
    \E name \in KeyNames, t \in Types :
        /\ StartsCommand(p) /\ HasCurrent /\ ~Listed(Current, name)
        /\ proc' = [proc EXCEPT ![p] =
                       [AtPrompt EXCEPT !.at = "password", !.cfg = LoadConfig,
                                    !.key = [name |-> name, path |-> <<LoadConfig.current, name>>,
                                             type |-> t]]]
        /\ UNCHANGED <<file, keyFile, faults, raced>>

(* Slip: the file on disk is not looked for. *)
NoKeyFileUnchecked(q) == TRUE

NoKeyFile(q) == keyFile[q] = "none"

\* os.Stat finds no file ...
StatKeyFile(p) ==
    LET q == proc[p].key.path
    IN /\ proc[p].at = "password" /\ NoKeyFile(q)
       /\ proc' = [proc EXCEPT ![p].at = "openKey"]
       /\ raced' = IF \E r \in Procs \ {p} : proc[r].at \in {"openKey", "writeKey"}
                                              /\ proc[r].key.path = q
                   THEN raced \cup {q} ELSE raced
       /\ UNCHANGED <<file, keyFile, commands, faults>>

\* ... the key is made, and os.WriteFile truncates ...
TruncateKeyFile(p) ==
    /\ proc[p].at = "openKey"
    /\ proc' = [proc EXCEPT ![p].at = "writeKey"]
    /\ keyFile' = [keyFile EXCEPT ![proc[p].key.path] = "partial"]
    /\ UNCHANGED <<file, commands, faults, raced>>

\* ... and writes.  The reference is added to what was read before the password.
RegisterKey(p) ==
    LET c == proc[p].cfg
        ctx == c.contexts[c.current]
    IN /\ proc[p].at = "writeKey"
       /\ keyFile' = [keyFile EXCEPT ![proc[p].key.path] = proc[p].key.type]
       /\ Saving(p, WithContext(c, c.current, [ctx EXCEPT !.keystores = @ \cup {proc[p].key}]))
       /\ UNCHANGED <<file, commands, faults, raced>>

\* keystore import: a file from elsewhere, whose contents tell its type.
KeystoreImport(p) ==
    \E name \in KeyNames, t \in Types :
        /\ StartsCommand(p) /\ HasCurrent /\ ~Listed(Current, name)
        /\ SavingCurrent(p, [Current EXCEPT !.keystores =
                                @ \cup {[name |-> name, path |-> External(t), type |-> t]}])
        /\ UNCHANGED <<file, keyFile, faults, raced>>

-----------------------------------------------------------------------------
(* hgctl signer: the commands *)

getContextName == IF CanLoad /\ LoadConfig.current # "" THEN LoadConfig.current ELSE "default"

\* The name of the context comes from one reading of the file ...
SignerCommand(p) ==
    \E at \in {"signer", "wizardCheck"} :
        /\ StartsCommand(p)
        /\ proc' = [proc EXCEPT ![p] = [AtPrompt EXCEPT !.at = at, !.name = getContextName]]
        /\ UNCHANGED <<file, keyFile, faults, raced>>

Named(p) == LoadConfig.contexts[proc[p].name]
HasNamed(p) == CanLoad /\ Has(LoadConfig, proc[p].name)

SavingNamed(p, ctx) ==
    /\ Saving(p, WithContext(LoadConfig, proc[p].name, ctx))
    /\ UNCHANGED <<file, keyFile, commands, faults, raced>>

\* ... and what the command changes from another.
OperatorPrivateKey(p) ==
    /\ proc[p].at = "signer" /\ HasNamed(p)
    /\ SavingNamed(p, [Named(p) EXCEPT !.op = FromEnv])

OperatorKeystore(p) ==
    /\ proc[p].at = "signer" /\ HasNamed(p)
    /\ \E k \in Named(p).keystores :
          k.type = "ecdsa" /\ SavingNamed(p, [Named(p) EXCEPT !.op = InKeystore(k)])

\* Each curve replaces the other.
SystemPrivateKey(p) ==
    /\ proc[p].at = "signer" /\ HasNamed(p)
    /\ SavingNamed(p, [Named(p) EXCEPT !.sys = [set |-> TRUE, ecdsa |-> FromEnv, bn254 |-> Unset]])

SystemKeystore(p) ==
    /\ proc[p].at = "signer" /\ HasNamed(p)
    /\ \E k \in {x \in Named(p).keystores : x.type \in Types} :
          SavingNamed(p, [Named(p) EXCEPT !.sys =
              [set |-> TRUE,
               ecdsa |-> IF k.type = "ecdsa" THEN InKeystore(k) ELSE Unset,
               bn254 |-> IF k.type = "bn254" THEN InKeystore(k) ELSE Unset]])

SystemRemove(p) ==
    /\ proc[p].at = "signer" /\ HasNamed(p) /\ Named(p).sys.set
    /\ SavingNamed(p, [Named(p) EXCEPT !.sys = NoSystem])

RemoveSignerConfig(p) ==
    /\ proc[p].at = "signer" /\ HasNamed(p)
    /\ Named(p).op # Unset \/ Named(p).sys.set
    /\ SavingNamed(p, [Named(p) EXCEPT !.op = Unset, !.sys = NoSystem])

-----------------------------------------------------------------------------
(* hgctl signer: the wizard, a dialogue of stages of which some show a list *)

\* getSignerTypeItems reads the file again: a remote signer is experimental.
getSignerTypeItems(p, type, keyType) ==
    LET remote == IF HasNamed(p) /\ Named(p).experimental THEN {"web3signer"} ELSE {}
    IN IF type = "operator" THEN {"env", "keystore"} \cup remote
       ELSE IF keyType = "ecdsa" THEN {"env"} \cup remote
       ELSE {"keystore"}

AtWizard(p, w) ==
    /\ proc' = [proc EXCEPT ![p].at = "wizard", ![p].wizard = w]
    /\ UNCHANGED <<file, keyFile, commands, faults, raced>>

OperatorWizard(p) ==
    AtWizard(p, [NoWizard EXCEPT !.type = "operator", !.stage = "signerType", !.list = "signers",
                                 !.keyType = "ecdsa",
                                 !.offers = getSignerTypeItems(p, "operator", "ecdsa")])

SystemWizard(p) ==
    AtWizard(p, [NoWizard EXCEPT !.type = "system", !.stage = "keyType", !.list = "keyTypes"])

\* signerWizard: the operator's keys first, then the system's, each if there is none.
SignerWizard(p) ==
    /\ proc[p].at = "wizardCheck" /\ HasNamed(p)
    /\ \/ Named(p).op = Unset /\ OperatorWizard(p)
       \/ Named(p).op # Unset /\ ~Named(p).sys.set /\ SystemWizard(p)

\* After the operator's keys the file is read again.
WizardReload(p) ==
    /\ proc[p].at = "wizardReload" /\ HasNamed(p) /\ ~Named(p).sys.set
    /\ SystemWizard(p)

AtStage(p, stage) == proc[p].at = "wizard" /\ proc[p].wizard.stage = stage

\* Enter on the list of key types; on any other list the assertion panics.
EnterKeyType(p) ==
    /\ AtStage(p, "keyType") /\ proc[p].wizard.list = "keyTypes" /\ CanLoad
    /\ \E t \in Types :
          AtWizard(p, [proc[p].wizard EXCEPT !.keyType = t, !.stage = "signerType",
                           !.list = "signers", !.offers = getSignerTypeItems(p, "system", t)])

ExistingKeystores(p, t) == {k \in Named(p).keystores : k.type = t}

\* Enter on the list of signers; on any other list nothing happens.
EnterSignerType(p) ==
    /\ AtStage(p, "signerType") /\ proc[p].wizard.list = "signers"
    /\ \E s \in proc[p].wizard.offers :
          LET w == [proc[p].wizard EXCEPT !.signer = s]
          IN \/ s = "env" /\ AtWizard(p, [w EXCEPT !.stage = "confirm"])
             \/ s = "web3signer" /\ AtWizard(p, [w EXCEPT !.stage = "text"])
             \/ /\ s = "keystore" /\ HasNamed(p)
                /\ ExistingKeystores(p, w.keyType) # {}
                /\ AtWizard(p, [w EXCEPT !.stage = "keystore", !.list = "keystores",
                                         !.keys = ExistingKeystores(p, w.keyType)])

EnterKeystore(p) ==
    /\ AtStage(p, "keystore")
    /\ \E k \in proc[p].wizard.keys :
          AtWizard(p, [proc[p].wizard EXCEPT !.key = k, !.stage = "confirm"])

\* The fields of a remote signer, one after the other; the list of TLS choices comes up
\* among them.
EnterText(p) ==
    /\ AtStage(p, "text")
    /\ AtWizard(p, [proc[p].wizard EXCEPT !.stage = "confirm", !.list = "tls"])

\* "n": back to the first stage, with the list that was shown last.
Restart(p) ==
    /\ AtStage(p, "confirm")
    /\ AtWizard(p, [proc[p].wizard EXCEPT
                       !.stage = IF proc[p].wizard.type = "system" THEN "keyType" ELSE "signerType"])

Confirm(p) ==
    /\ AtStage(p, "confirm")
    /\ proc' = [proc EXCEPT ![p].at = "wizardSave"]
    /\ UNCHANGED <<file, keyFile, commands, faults, raced>>

\* "q", at any stage, is no error: after the operator's wizard comes the system's.
QuitOperatorWizard(p) ==
    /\ proc[p].at = "wizard" /\ proc[p].wizard.type = "operator"
    /\ proc' = [proc EXCEPT ![p] = [AtPrompt EXCEPT !.at = "wizardReload", !.name = proc[p].name]]
    /\ UNCHANGED <<file, keyFile, commands, faults, raced>>

(* Slip: the keystore is the one chosen from the list. *)
buildConfigFromList(w, ctx) ==
    CASE w.signer = "env" -> FromEnv
      [] w.signer = "web3signer" -> Remote
      [] OTHER -> InKeystore(w.key)

\* buildECDSAConfig, buildBN254Keystore: a keystore is looked up by its name in the
\* context as it is now; nil when it is gone.
buildConfig(w, ctx) ==
    CASE w.signer = "env" -> FromEnv
      [] w.signer = "web3signer" -> Remote
      [] OTHER -> IF Listed(ctx, w.key.name)
                  THEN InKeystore(CHOOSE k \in ctx.keystores : k.name = w.key.name)
                  ELSE Unset

\* The other curve's key is left as it is.
SaveSignerConfig(p) ==
    LET w == proc[p].wizard
        built == buildConfig(w, Named(p))
    IN /\ proc[p].at = "wizardSave" /\ HasNamed(p)
       /\ IF w.type = "operator"
          THEN /\ proc' = [proc EXCEPT ![p] =
                              [AtPrompt EXCEPT !.at = "saveOperator", !.name = proc[p].name,
                                  !.cfg = WithContext(LoadConfig, proc[p].name,
                                                      [Named(p) EXCEPT !.op = built])]]
               /\ UNCHANGED <<file, keyFile, commands, faults, raced>>
          ELSE SavingNamed(p, [Named(p) EXCEPT !.sys =
                   IF w.keyType = "ecdsa" THEN [@ EXCEPT !.set = TRUE, !.ecdsa = built]
                   ELSE [@ EXCEPT !.set = TRUE, !.bn254 = built]])

-----------------------------------------------------------------------------
ContextCommand(p) ==
    \/ ContextCreate(p) \/ SaveContext(p) \/ ContextCopy(p) \/ PerformContextCopy(p)
    \/ ContextDelete(p) \/ ContextUse(p) \/ ContextSet(p) \/ ContextRemove(p)

TelemetryCommand(p) == EnableTelemetry(p) \/ DisableTelemetry(p) \/ TelemetryWizard(p)

KeystoreCommand(p) ==
    \/ KeystoreCreate(p) \/ StatKeyFile(p) \/ TruncateKeyFile(p) \/ RegisterKey(p)
    \/ KeystoreImport(p)

SignerKeys(p) ==
    \/ OperatorPrivateKey(p) \/ OperatorKeystore(p) \/ SystemPrivateKey(p) \/ SystemKeystore(p)
    \/ SystemRemove(p) \/ RemoveSignerConfig(p)

Wizard(p) ==
    \/ SignerWizard(p) \/ WizardReload(p) \/ EnterKeyType(p) \/ EnterSignerType(p)
    \/ EnterKeystore(p) \/ EnterText(p) \/ Restart(p) \/ Confirm(p)
    \/ QuitOperatorWizard(p) \/ SaveSignerConfig(p)

HgctlNext == \E p \in Procs :
    \/ SaveBegins(p) \/ SaveEnds(p) \/ SaveTorn(p) \/ Crash(p) \/ GivesUp(p)
    \/ ContextCommand(p) \/ TelemetryCommand(p) \/ KeystoreCommand(p)
    \/ SignerCommand(p) \/ SignerKeys(p) \/ Wizard(p)

HgctlSpec == HgctlInit /\ [][HgctlNext]_hgctlVars

-----------------------------------------------------------------------------
(* Properties *)

\* The current context that the file names is one it holds, whatever commands overlapped,
\* died or read a truncated file: `context delete' never leaves a later command without
\* its context.  Only a text of which a part is missing or another's is left over, and what
\* was written back from it, may name another: the current context is its first line.
CurrentExists == file.kind = "ok" /\ ~file.cfg.cut => CurrentIn(file.cfg)

\* The keys that a context signs with are keystores it lists, even when the wizard chose
\* them before another command replaced the context: a deployment finds them.  Again, a
\* text that is not what one command wrote is out.
SignersAreListed == file.kind = "ok" /\ ~file.cfg.cut => SignersIn(file.cfg)

\* A keystore that the file lists has its key on disk, complete: only two commands that
\* create it at the same moment can lose it, never a crash, a copied or deleted context, a
\* lost reference or a text cut short.
KeyLossNeedsRace == file.kind = "ok" => KeysIn(file.cfg, keyFile, raced)
=============================================================================
