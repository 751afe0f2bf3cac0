------------------------------ MODULE EnvFile ------------------------------
(***************************************************************************)
(* src/app/env_file.py, get_settings() of src/app/config.py and the system *)
(* panel of src/app/routers/admin.py: a save rewrites the .env file line   *)
(* by line, is recorded, clears the cached settings and pushes the new     *)
(* values into the environment of the process, which takes precedence over *)
(* the file.  Other threads read the settings at any time.  A restart      *)
(* brings the environment of the container back.                           *)
(***************************************************************************)
EXTENDS Integers, Sequences, SequencesExt

CONSTANTS Keys,       \* keys of the panel
          Kind,       \* kind of each: "bool", "number", "text", "secret"
          SensitiveKeys, \* those whose name says that they are secret
          NoEmptyKeys,   \* no_empty_keys
          ContainerEnv,  \* keys the container sets, with their values
          FirstFiles, \* files the service may be started with
          Words, Unset,
          Forms,      \* bound: what is sent with the panel
          Readers,    \* threads that call get_settings()
          MaxSaves    \* bound: saves

\* What stands behind the "=" of a line or in a field, stripped of blanks: a
\* word, maybe in a pair of quotes, maybe with " #" and more behind the word.
Texts == [word : Words, quoted : BOOLEAN, hash : BOOLEAN]
Text(w, q, h) == [word |-> w, quoted |-> q, hash |-> h]
Plain(w) == Text(w, FALSE, FALSE)
Empty == Plain("")
EmptyQuotes == Text("", TRUE, FALSE)

ASSUME EnvAssumption ==
  /\ IsFiniteSet(Keys)
  /\ Kind \in [Keys -> {"bool", "number", "text", "secret"}]
  /\ SensitiveKeys \subseteq Keys /\ NoEmptyKeys \subseteq Keys
  /\ DOMAIN ContainerEnv \subseteq Keys
  /\ "" \in Words /\ Forms \subseteq [Keys -> Texts]
  /\ \A f \in Forms, k \in Keys : Kind[k] = "bool" => f[k] \in {Plain("true"), Plain("false")}
  /\ Unset \notin Keys \cup Texts
  /\ Unset \notin DOMAIN ContainerEnv /\ \A k \in DOMAIN ContainerEnv : ContainerEnv[k] # Unset
  /\ \A K \in SUBSET Keys : Unset \notin [K -> Texts]
  /\ \A f \in FirstFiles : f \in Seq({f[i] : i \in DOMAIN f})

Blank == [key |-> Unset, val |-> "blank"]

VARIABLES
  file,    \* lines: a key with its text; or a comment, a blank
  environ, \* os.environ, Unset for what is not set
  cache,   \* what get_settings() has cached, Unset when cleared
  reader,  \* a thread between its miss of the cache and its store, or Unset
  pushing, \* updates of a save that has written the file, or Unset
  cleared, \* that save has cleared the cache
  form,    \* the last form that was sent
  saves,
  saved,   \* history: values saved to this process, or to an earlier one
  restored, \* history: those of them that came back with a restart
  crossed  \* history: the cached settings were read while a save went on

envVars == <<file, environ, cache, reader, pushing, cleared, form, saves, saved,
             restored, crossed>>

Pairs(f) == {i \in DOMAIN f : f[i].key # Unset}

\* read_env and write_env strip a pair of quotes; python-dotenv, by which
\* Settings reads the file, strips the quotes, or else what follows a " #".
Unquoted(t) == Text(t.word, FALSE, t.hash)
Parsed(t) == IF t.quoted THEN Unquoted(t) ELSE Plain(t.word)

\* The last line of a key counts, for read_env and for python-dotenv.
LastText(f, k) ==
  IF k \in {f[i].key : i \in Pairs(f)}
  THEN f[CHOOSE i \in Pairs(f) : f[i].key = k /\ \A j \in Pairs(f) : f[j].key = k => j <= i].val
  ELSE Empty

ReadEnv(f) == [k \in {f[i].key : i \in Pairs(f)} |-> Unquoted(LastText(f, k))]
Shown(f, k) == IF k \in DOMAIN ReadEnv(f) THEN ReadEnv(f)[k] ELSE Empty

\* Settings(): the environment as it is, then the file.
Settings(env, f) == [k \in Keys |-> IF env[k] # Unset THEN env[k] ELSE Parsed(LastText(f, k))]

StartEnv == [k \in Keys |-> IF k \in DOMAIN ContainerEnv THEN ContainerEnv[k] ELSE Unset]

EnvInit ==
  /\ file \in FirstFiles /\ environ = StartEnv /\ cache = Unset
  /\ reader = [r \in Readers |-> Unset]
  /\ pushing = Unset /\ cleared = FALSE /\ form = Unset /\ saves = 0
  /\ saved = [k \in Keys |-> Unset] /\ restored = {} /\ crossed = FALSE

\* Mutant of Skips: an empty number is written.
SkipsSecretsOnly(k, v) == v = Empty /\ k \in SensitiveKeys

\* Fields that are not written when they are empty.
Skips(k, v) == v = Empty /\ (k \in SensitiveKeys \cup NoEmptyKeys \/ Kind[k] = "number")

Updates(f) == [k \in {k \in Keys : ~Skips(k, f[k])} |-> f[k]]

Line(k, v) == [key |-> k, val |-> v]

\* Mutant of Replaced: only the first line of a key is replaced.
ReplacedFirst(f, u) ==
  [i \in DOMAIN f |-> IF f[i].key \in DOMAIN u /\ \A j \in 1..(i - 1) : f[j].key # f[i].key
                        THEN Line(f[i].key, u[f[i].key]) ELSE f[i]]

Replaced(f, u) ==
  [i \in DOMAIN f |-> IF f[i].key \in DOMAIN u THEN Line(f[i].key, u[f[i].key]) ELSE f[i]]

Missing(f, u) == DOMAIN u \ {f[i].key : i \in DOMAIN f}

\* Mutant of Rewritten: the file is written from what was read.
RewrittenFromPairs(f, u) ==
  LET kept == Replaced(SelectSeq(f, LAMBDA l : l.key # Unset), u)
  IN kept \o SetToSeq({Line(k, u[k]) : k \in Missing(f, u)})

\* write_env: keys the file did not have follow after a blank line, in the
\* order of a Python set.
Rewritten(f, u) ==
  LET kept == Replaced(f, u)
      gap == IF kept # <<>> /\ Last(kept) # Blank THEN <<Blank>> ELSE <<>>
  IN IF Missing(f, u) = {} THEN kept
     ELSE kept \o gap \o SetToSeq({Line(k, u[k]) : k \in Missing(f, u)})

\* What a save reports as changed: the old text is compared without its quotes,
\* the new one with them.
Changed(f, u) ==
  Missing(f, u) \cup
  {k \in DOMAIN u : \E i \in DOMAIN f : f[i].key = k /\ Unquoted(f[i].val) # u[k]}

----------------------------------------------------------------------------
\* system_save awaits nothing once it has the form: no other save comes
\* between its steps, but threads and a restart do.
SaveForm(f) ==
  /\ pushing = Unset /\ saves < MaxSaves
  /\ file' = Rewritten(file, Updates(f))
  /\ pushing' = Updates(f) /\ cleared' = FALSE
  /\ form' = f /\ saves' = saves + 1
  /\ UNCHANGED <<environ, cache, reader, saved, restored, crossed>>

\* The commit of the audit event fails: error 500, and no more than the file
\* has changed.
FailSave ==
  /\ pushing # Unset /\ ~cleared
  /\ saved' = [k \in Keys |-> IF k \in DOMAIN pushing THEN Unset ELSE saved[k]]
  /\ pushing' = Unset
  /\ UNCHANGED <<file, environ, cache, reader, cleared, form, saves, restored, crossed>>

\* Mutant of ClearCache: what is cached stays.
ClearNothing ==
  /\ pushing # Unset /\ ~cleared
  /\ cleared' = TRUE
  /\ UNCHANGED <<file, environ, cache, reader, pushing, form, saves, saved, restored,
                 crossed>>

\* get_settings.cache_clear(); a thread that is reading is not stopped by it.
ClearCache ==
  /\ pushing # Unset /\ ~cleared
  /\ cache' = Unset /\ cleared' = TRUE /\ crossed' = FALSE
  /\ UNCHANGED <<file, environ, reader, pushing, form, saves, saved, restored>>

\* The threads that are reading the settings are crossed by this save.
Crossed == [r \in Readers |-> IF reader[r] = Unset THEN Unset ELSE [reader[r] EXCEPT !.crossed = TRUE]]

\* Mutant of PushEnv: what the process has been given is left as it is.
PushEnvNew ==
  /\ pushing # Unset /\ cleared
  /\ environ' = [k \in Keys |-> IF k \in DOMAIN pushing /\ environ[k] = Unset
                                  THEN pushing[k] ELSE environ[k]]
  /\ saved' = [k \in Keys |-> IF k \in DOMAIN pushing THEN pushing[k] ELSE saved[k]]
  /\ restored' = restored \ DOMAIN pushing
  /\ pushing' = Unset /\ cleared' = FALSE /\ reader' = Crossed
  /\ UNCHANGED <<file, cache, form, saves, crossed>>

\* The loop over os.environ that ends the save.
PushEnv ==
  /\ pushing # Unset /\ cleared
  /\ environ' = [k \in Keys |-> IF k \in DOMAIN pushing THEN pushing[k] ELSE environ[k]]
  /\ saved' = [k \in Keys |-> IF k \in DOMAIN pushing THEN pushing[k] ELSE saved[k]]
  /\ restored' = restored \ DOMAIN pushing
  /\ pushing' = Unset /\ cleared' = FALSE /\ reader' = Crossed
  /\ UNCHANGED <<file, cache, form, saves, crossed>>

----------------------------------------------------------------------------
\* get_settings() of a thread that misses the cache: Settings() takes a copy
\* of the environment, then reads the file.
BeginRead(r) ==
  /\ cache = Unset /\ reader[r] = Unset
  /\ reader' = [reader EXCEPT ![r] = [env |-> environ, got |-> Unset, crossed |-> pushing # Unset]]
  /\ UNCHANGED <<file, environ, cache, pushing, cleared, form, saves, saved, restored,
                 crossed>>

ReadFile(r) ==
  /\ reader[r] # Unset /\ reader[r].got = Unset
  /\ reader' = [reader EXCEPT ![r].got = Settings(reader[r].env, file)]
  /\ UNCHANGED <<file, environ, cache, pushing, cleared, form, saves, saved, restored,
                 crossed>>

\* lru_cache keeps the result, if no other thread was quicker.
StoreSettings(r) ==
  /\ reader[r] # Unset /\ reader[r].got # Unset
  /\ IF cache = Unset
     THEN cache' = reader[r].got /\ crossed' = (reader[r].crossed \/ pushing # Unset)
     ELSE UNCHANGED <<cache, crossed>>
  /\ reader' = [reader EXCEPT ![r] = Unset]
  /\ UNCHANGED <<file, environ, pushing, cleared, form, saves, saved, restored>>

\* The process ends, with or without a save in progress, and starts again.
Restart ==
  /\ environ' = StartEnv /\ cache' = Unset /\ pushing' = Unset /\ cleared' = FALSE
  /\ reader' = [r \in Readers |-> Unset] /\ crossed' = FALSE
  /\ saved' = [k \in Keys |->
                 IF k \in DOMAIN ContainerEnv THEN Unset
                 ELSE IF pushing # Unset /\ k \in DOMAIN pushing THEN pushing[k] ELSE saved[k]]
  /\ restored' = Keys
  /\ UNCHANGED <<file, form, saves>>

ReadStep(r) == BeginRead(r) \/ ReadFile(r) \/ StoreSettings(r)

EnvNext == \/ \E f \in Forms : SaveForm(f)
           \/ FailSave \/ ClearCache \/ PushEnv
           \/ \E r \in Readers : ReadStep(r)
           \/ Restart

EnvSpec == EnvInit /\ [][EnvNext]_envVars
----------------------------------------------------------------------------
\* What an operator wrote by hand survives every save: comments, and lines of
\* keys the panel does not know, each at its place in the file.
ByHand(f) == [i \in {j \in DOMAIN f : f[j].key \notin Keys /\ f[j] # Blank} |-> f[i]]
HandWorkStays == [][ByHand(file') = ByHand(file)]_envVars

\* Whatever was in the file, a key twice or in quotes: after a save the panel
\* shows each value that was sent, without its quotes; the same form leaves the
\* file as it is, and only a value in quotes is reported as changed again.
SavedIsRead ==
  form # Unset =>
    /\ \A k \in Keys : form[k] # Empty => Shown(file, k) = Unquoted(form[k])
    /\ Rewritten(file, Updates(form)) = file
    /\ Changed(file, Updates(form)) \subseteq {k \in Keys : form[k].quoted}

\* No sequence of saves takes a value from a key that the service cannot
\* start without, or that has to be a number, unless the field holds a pair of
\* quotes with nothing between them.
NeededStays ==
  [][\A k \in Keys : (k \in NoEmptyKeys \/ Kind[k] = "number") /\ Shown(file, k) # Empty =>
       \/ Shown(file', k) # Empty
       \/ form' # Unset /\ form'[k] = EmptyQuotes]_envVars

\* What the process is to go by: a value saved to it as it was sent, one saved
\* before it started as python-dotenv reads it.
Due(k) == IF k \in restored THEN Parsed(saved[k]) ELSE saved[k]
Obeyed(k) == saved[k] # Unset => cache[k] = Due(k)

\* The process goes by what was saved to it, also when the container or an
\* earlier save had set the key, when another save failed half-way and after a
\* restart in the middle of a save: unless its settings were read while a save
\* went on.
SavedIsInForce ==
  pushing = Unset /\ cache # Unset /\ ~crossed => \A k \in Keys : Obeyed(k)

\* routers/admin.py:516: the cached settings are dropped so that new values are seen.
NewValuesAreSeen == pushing = Unset /\ cache # Unset => \A k \in Keys : Obeyed(k)

\* templates/admin_system.html:196: a secret field left empty stays as it was.
SecretsStay ==
  [][\A k \in Keys : Kind[k] = "secret" /\ form' # Unset /\ form'[k] = Empty =>
       Shown(file', k) = Shown(file, k)]_envVars

\* A save writes what was sent, and nothing else is lost by it.
SavesKeep == []SavedIsRead /\ HandWorkStays /\ NeededStays
============================================================================
