---------------------------- MODULE Configuration ----------------------------
(***************************************************************************)
(* The configuration (internal/config): defaults, files, environment and    *)
(* flags are merged; the runtime manager swaps validated configurations and *)
(* tells its listeners; a watcher reloads the files when they are written.  *)
(* Durations are in seconds; lists are sets; "" or {} is an unset value.    *)
(***************************************************************************)
EXTENDS Integers, Sequences, FiniteSets

CONSTANTS Updaters,      \* goroutines that change the configuration
          Profiles,      \* built-in profiles they apply
          Environments,  \* environments whose overrides they apply
          FieldUpdates,  \* <<section, field, value>> of UpdateConfigField
          FileSettings,  \* what is written into the configuration files
          InitialFiles,  \* what the files hold at the start
          EnvSettings,   \* what GOCODENOW_* variables set
          MaxListeners,  \* bound
          MaxUpdates,    \* bound: configurations installed
          MaxWrites,     \* bound: writes of a configuration file
          NoFile,
          Unreadable     \* contents that are no YAML of a configuration

ASSUME ConfigurationAssumption == {MaxListeners, MaxUpdates, MaxWrites} \subseteq Nat

VARIABLES config,       \* rcm.config
          changes,      \* number of configurations installed so far
          updates,      \* of each goroutine, how far its update is
          holder,       \* who holds the mutex over several steps
          listeners,    \* callbacks: changes before it was registered, changes it was told of,
                        \* whether no other registration overlapped its own
          callbacks,    \* rcm.callbacks
          registering,  \* listeners whose registration is under way
          configFiles,  \* settings in the global and the local file
          writing,      \* of each file, what is still to be written after it was cut
          watch,        \* state of the watcher: events, timer, watched files, running, stopped;
                        \* files the last reload did not come to, and not written since
          unread,       \* watched files written, and not read since
          writes

configVars == <<config, changes, updates, holder, listeners, callbacks, registering, configFiles,
                writing, watch, unread, writes>>

-----------------------------------------------------------------------------
\* Values.
DefaultConfig ==
    [llm      |-> [endpoint |-> "http://localhost:1234/v1", token |-> "", model |-> "qwen2.5",
                   timeout |-> 30, max_retries |-> 3, rate_limit_rpm |-> 60],
     storage  |-> [database_path |-> "conversations.db", cache_size |-> 50, auto_save_freq |-> 300,
                   max_memory_mb |-> 100, backup_interval |-> 86400, cleanup_interval |-> 604800,
                   enable_compression |-> FALSE],
     files    |-> [allowed_paths |-> {".", "cwd"}, blocked_paths |-> {"/etc", "/proc"},
                   allowed_extensions |-> {}, blocked_extensions |-> {".exe", ".so"},
                   allow_absolute_paths |-> FALSE, allow_symlinks |-> FALSE],
     security |-> [max_file_size |-> 10485760, allowed_hosts |-> {}, enable_sandbox |-> FALSE],
     ui       |-> [theme |-> "default", max_history_size |-> 1000, default_expanded |-> FALSE,
                   show_timestamps |-> TRUE, auto_scroll |-> TRUE],
     tools    |-> [default_timeout |-> 30, max_concurrent |-> 5, custom_tools_paths |-> {},
                   enable_builtins |-> TRUE]]

Texts == {"endpoint", "token", "model", "database_path", "theme"}
Lists == {"allowed_paths", "blocked_paths", "allowed_extensions", "blocked_extensions",
          "allowed_hosts", "custom_tools_paths"}
Flags == {"enable_compression", "allow_absolute_paths", "allow_symlinks", "enable_sandbox",
          "default_expanded", "show_timestamps", "auto_scroll", "enable_builtins"}

\* The value a field has in a Config that nothing was read into.
Zero(f) == CASE f \in Texts -> "" [] f \in Lists -> {} [] f \in Flags -> FALSE [] OTHER -> 0

\* c with the fields of a partial configuration set: overrides, and what yaml.Unmarshal does.
Overlay(c, part) ==
    [s \in DOMAIN c |-> IF s \notin DOMAIN part THEN c[s]
                        ELSE [f \in DOMAIN c[s] |-> IF f \in DOMAIN part[s] THEN part[s][f] ELSE c[s][f]]]

Unmarshal(part) == Overlay([s \in DOMAIN DefaultConfig |-> [f \in DOMAIN DefaultConfig[s] |-> Zero(f)]], part)

\* Mutant: a flag counts only when it is set.
MergeSetFlagsOnly(dst, src) ==
    [s \in DOMAIN dst |-> [f \in DOMAIN dst[s] |-> IF src[s][f] /= Zero(f) THEN src[s][f] ELSE dst[s][f]]]

\* A value that is zero in the source is taken for an unset one, except for flags.
MergeConfigs(dst, src) ==
    [s \in DOMAIN dst |-> [f \in DOMAIN dst[s] |->
        IF f \in Flags \/ src[s][f] /= Zero(f) THEN src[s][f] ELSE dst[s][f]]]

LoadConfigFile(c, file) == IF file = NoFile THEN c ELSE MergeConfigs(c, Unmarshal(file))

LoadConfig(global, local) ==
    Overlay(LoadConfigFile(LoadConfigFile(DefaultConfig, global), local), EnvSettings)

\* createDevelopmentProfile and its like: the defaults, and these.
BuiltinProfiles ==
    [development |-> [llm |-> [timeout |-> 60, max_retries |-> 1], storage |-> [cache_size |-> 100, auto_save_freq |-> 60],
                      files |-> [allow_absolute_paths |-> TRUE], ui |-> [default_expanded |-> TRUE],
                      tools |-> [default_timeout |-> 60, max_concurrent |-> 10]],
     production  |-> [storage |-> [cache_size |-> 200, enable_compression |-> TRUE, backup_interval |-> 21600],
                      security |-> [enable_sandbox |-> TRUE], ui |-> [max_history_size |-> 500]],
     secure      |-> [llm |-> [timeout |-> 20, max_retries |-> 2], storage |-> [enable_compression |-> TRUE],
                      security |-> [enable_sandbox |-> TRUE, max_file_size |-> 5242880],
                      files |-> [blocked_paths |-> {"/etc", "/proc", "/home"}],
                      tools |-> [default_timeout |-> 20, max_concurrent |-> 3]],
     performance |-> [llm |-> [timeout |-> 45, max_retries |-> 5, rate_limit_rpm |-> 120],
                      storage |-> [cache_size |-> 500, auto_save_freq |-> 30, max_memory_mb |-> 500, enable_compression |-> TRUE],
                      ui |-> [max_history_size |-> 2000], tools |-> [default_timeout |-> 45, max_concurrent |-> 15]],
     debug       |-> [llm |-> [timeout |-> 120, max_retries |-> 1], storage |-> [auto_save_freq |-> 10],
                      files |-> [allow_absolute_paths |-> TRUE], ui |-> [default_expanded |-> TRUE],
                      tools |-> [default_timeout |-> 120, max_concurrent |-> 1]],
     minimal     |-> [llm |-> [timeout |-> 15, max_retries |-> 1, rate_limit_rpm |-> 30],
                      storage |-> [cache_size |-> 20, auto_save_freq |-> 600, max_memory_mb |-> 50, enable_compression |-> TRUE],
                      ui |-> [max_history_size |-> 100], tools |-> [default_timeout |-> 15, max_concurrent |-> 2]]]

\* createDevelopmentEnv and its like.
BuiltinOverrides ==
    [development |-> [llm |-> [timeout |-> 60, max_retries |-> 1], storage |-> [auto_save_freq |-> 60, enable_compression |-> FALSE],
                      security |-> [enable_sandbox |-> FALSE], files |-> [allow_absolute_paths |-> TRUE],
                      ui |-> [default_expanded |-> TRUE, show_timestamps |-> TRUE],
                      tools |-> [default_timeout |-> 60, max_concurrent |-> 10]],
     testing     |-> [llm |-> [timeout |-> 15, max_retries |-> 1],
                      storage |-> [cache_size |-> 20, auto_save_freq |-> 30, max_memory_mb |-> 50],
                      security |-> [enable_sandbox |-> TRUE], ui |-> [show_timestamps |-> FALSE, max_history_size |-> 50],
                      tools |-> [default_timeout |-> 15, max_concurrent |-> 3]],
     staging     |-> [llm |-> [timeout |-> 25, max_retries |-> 2],
                      storage |-> [cache_size |-> 100, enable_compression |-> TRUE, backup_interval |-> 10800],
                      security |-> [enable_sandbox |-> TRUE], files |-> [allow_absolute_paths |-> FALSE],
                      ui |-> [max_history_size |-> 300], tools |-> [default_timeout |-> 25, max_concurrent |-> 5]],
     production  |-> [llm |-> [timeout |-> 30, max_retries |-> 3, rate_limit_rpm |-> 60],
                      storage |-> [cache_size |-> 200, enable_compression |-> TRUE, backup_interval |-> 21600, cleanup_interval |-> 604800],
                      security |-> [enable_sandbox |-> TRUE, max_file_size |-> 5242880],
                      files |-> [allow_absolute_paths |-> FALSE, allow_symlinks |-> FALSE],
                      ui |-> [default_expanded |-> FALSE, max_history_size |-> 500],
                      tools |-> [default_timeout |-> 30, max_concurrent |-> 5]],
     local       |-> [llm |-> [endpoint |-> "http://localhost:1234/v1", timeout |-> 120],
                      storage |-> [auto_save_freq |-> 120, enable_compression |-> FALSE],
                      security |-> [enable_sandbox |-> FALSE], files |-> [allow_absolute_paths |-> TRUE, allow_symlinks |-> TRUE],
                      ui |-> [default_expanded |-> TRUE, show_timestamps |-> TRUE],
                      tools |-> [default_timeout |-> 120, max_concurrent |-> 15]]]

-----------------------------------------------------------------------------
\* Validation.  Malformed names an incomplete URL, a missing path and a suffix without a dot.
Malformed == {"", "malformed"}

ValidLLM(c) ==
    /\ c.endpoint \notin Malformed /\ c.model /= ""
    /\ c.timeout \in 1..300 /\ c.max_retries \in 0..10 /\ c.rate_limit_rpm >= 0

ValidStorage(c) ==
    /\ c.database_path \notin Malformed
    /\ c.cache_size \in 1..10000 /\ c.auto_save_freq >= 10 /\ c.max_memory_mb \in 1..10240
    /\ c.backup_interval > 0 /\ c.cleanup_interval > 0

ValidFiles(c) ==
    /\ (c.allowed_paths \cup c.allowed_extensions \cup c.blocked_extensions) \cap Malformed = {}
    /\ "" \notin c.blocked_paths

ValidSecurity(c) == c.max_file_size \in 1..1073741824 /\ "" \notin c.allowed_hosts

ValidUI(c) == c.theme \in {"default", "dark", "light"} /\ c.max_history_size \in 1..100000

ValidTools(c) ==
    c.default_timeout \in 1..600 /\ c.max_concurrent \in 1..100 /\ c.custom_tools_paths \cap Malformed = {}

ValidateConfig(c) ==
    /\ ValidLLM(c.llm) /\ ValidStorage(c.storage) /\ ValidSecurity(c.security) /\ ValidFiles(c.files)
    /\ ValidUI(c.ui) /\ ValidTools(c.tools)

-----------------------------------------------------------------------------
Files == {"global", "local"}
Watcher == "watcher"
Idle == [step |-> "idle"]

ConfigInit ==
    /\ configFiles \in InitialFiles
    /\ config = LoadConfig(configFiles["global"], configFiles["local"])
    /\ ValidateConfig(config)
    /\ changes = 0
    /\ updates = [u \in Updaters \cup {Watcher} |-> Idle]
    /\ holder = "none"
    /\ listeners = <<>> /\ callbacks = <<>> /\ registering = {}
    /\ writing = [f \in Files |-> NoFile]
    /\ watch = [on |-> FALSE, events |-> FALSE, timer |-> FALSE, stopped |-> FALSE, files |-> {}, barred |-> {}]
    /\ unread = {}
    /\ writes = 0

\* Nothing locks the list of callbacks: it is read, and what was read is written back one longer.
BeginRegistration ==
    /\ Len(listeners) < MaxListeners
    /\ listeners' = Append([i \in DOMAIN listeners |-> [listeners[i] EXCEPT !.alone = @ /\ i \notin registering]],
                           [since |-> 0, told |-> <<>>, seen |-> callbacks, alone |-> registering = {}])
    /\ registering' = registering \cup {Len(listeners) + 1}
    /\ UNCHANGED <<config, changes, updates, holder, callbacks, configFiles, writing, watch, unread, writes>>

RegisterCallback ==
    \E i \in registering :
        /\ callbacks' = Append(listeners[i].seen, i)
        /\ listeners' = [listeners EXCEPT ![i].since = changes, ![i].seen = <<>>]
        /\ registering' = registering \ {i}
        /\ UNCHANGED <<config, changes, updates, holder, configFiles, writing, watch, unread, writes>>

\* UpdateConfig refuses an invalid configuration.
Submit(u, new) ==
    /\ updates[u].step = "idle" /\ ValidateConfig(new) /\ changes < MaxUpdates
    /\ updates' = [updates EXCEPT ![u] = [step |-> "swap", new |-> new]]
    /\ UNCHANGED <<config, changes, holder, listeners, callbacks, registering, configFiles, writing, watch, unread, writes>>

ApplyProfile == \E u \in Updaters, p \in Profiles : Submit(u, Overlay(DefaultConfig, BuiltinProfiles[p]))

\* A copy of the configuration with the overrides of an environment is handed back.
ApplyEnvironmentOverrides ==
    \E u \in Updaters, e \in Environments :
        holder = "none" /\ Submit(u, Overlay(config, BuiltinOverrides[e]))

Install(u, new) ==
    /\ holder = "none" /\ changes < MaxUpdates
    /\ config' = new
    /\ changes' = changes + 1
    /\ updates' = [updates EXCEPT ![u] = [step |-> "call", change |-> changes + 1]]

Swap ==
    \E u \in DOMAIN updates :
        /\ updates[u].step = "swap" /\ Install(u, updates[u].new)
        /\ UNCHANGED <<holder, listeners, callbacks, registering, configFiles, writing, watch, unread, writes>>

\* UpdateConfigField keeps the mutex until every listener is told.
UpdateConfigField ==
    \E u \in Updaters, d \in FieldUpdates :
        LET new == [config EXCEPT ![d[1]][d[2]] = d[3]]
        IN /\ updates[u].step = "idle" /\ ValidateConfig(new)
           /\ Install(u, new)
           /\ holder' = u
           /\ UNCHANGED <<listeners, callbacks, registering, configFiles, writing, watch, unread, writes>>

\* The loop is over the callbacks there are when it begins.
BeginCalls ==
    \E u \in DOMAIN updates :
        /\ updates[u].step = "call"
        /\ updates' = [updates EXCEPT ![u] = [step |-> "calls", change |-> @.change, calls |-> callbacks, next |-> 1]]
        /\ UNCHANGED <<config, changes, holder, listeners, callbacks, registering, configFiles, writing, watch, unread, writes>>

\* Mutant: the error of a callback ends the update.
CallUntilError ==
    \E u \in DOMAIN updates, failed \in BOOLEAN :
        LET d == updates[u]
        IN /\ d.step = "calls" /\ d.next <= Len(d.calls)
           /\ listeners' = [listeners EXCEPT ![d.calls[d.next]].told = Append(@, d.change)]
           /\ updates' = [updates EXCEPT ![u].next = IF failed THEN Len(d.calls) + 1 ELSE d.next + 1]
           /\ UNCHANGED <<config, changes, holder, callbacks, registering, configFiles, writing, watch, unread, writes>>

\* The error of a callback is only logged.
CallListener ==
    \E u \in DOMAIN updates :
        LET d == updates[u]
        IN /\ d.step = "calls" /\ d.next <= Len(d.calls)
           /\ listeners' = [listeners EXCEPT ![d.calls[d.next]].told = Append(@, d.change)]
           /\ updates' = [updates EXCEPT ![u].next = d.next + 1]
           /\ UNCHANGED <<config, changes, holder, callbacks, registering, configFiles, writing, watch, unread, writes>>

UpdateReturns ==
    \E u \in DOMAIN updates :
        /\ updates[u].step = "calls" /\ updates[u].next > Len(updates[u].calls)
        /\ updates' = [updates EXCEPT ![u] = Idle]
        /\ holder' = IF holder = u THEN "none" ELSE holder
        /\ UNCHANGED <<config, changes, listeners, callbacks, registering, configFiles, writing, watch, unread, writes>>

-----------------------------------------------------------------------------
\* A file changes on disk, which the watcher of a watched file notes.
Touch(f, contents) ==
    /\ configFiles' = [configFiles EXCEPT ![f] = contents]
    /\ IF f \in watch.files
       THEN unread' = unread \cup {f} /\ watch' = [watch EXCEPT !.events = TRUE, !.barred = @ \ {f}]
       ELSE UNCHANGED <<unread, watch>>

\* os.WriteFile, here or in an editor, empties the file before it writes: who reads it now finds
\* nothing, or a part that cannot be parsed.
Cut(f, contents) ==
    /\ writing[f] = NoFile /\ writes < MaxWrites
    /\ \E part \in {[s \in {} |-> 0], Unreadable} : Touch(f, part)
    /\ writing' = [writing EXCEPT ![f] = contents]
    /\ writes' = writes + 1
    /\ UNCHANGED <<config, changes, updates, holder, listeners, callbacks, registering>>

EditFile == \E f \in Files, part \in FileSettings \cup {Unreadable} : Cut(f, part)

SaveConfig == holder = "none" /\ Cut("local", config)

FinishWrite ==
    \E f \in Files :
        /\ writing[f] /= NoFile
        /\ Touch(f, writing[f])
        /\ writing' = [writing EXCEPT ![f] = NoFile]
        /\ UNCHANGED <<config, changes, updates, holder, listeners, callbacks, registering, writes>>

\* An editor that renames a new file over the old one takes the watch away, as does who removes it.
ReplaceFile ==
    \E f \in Files, part \in FileSettings \cup {Unreadable, NoFile} :
        /\ writing[f] = NoFile /\ writes < MaxWrites
        /\ configFiles' = [configFiles EXCEPT ![f] = part]
        /\ watch' = [watch EXCEPT !.files = @ \ {f}]
        /\ unread' = unread \ {f}
        /\ writes' = writes + 1
        /\ UNCHANGED <<config, changes, updates, holder, listeners, callbacks, registering, writing>>

\* Files that do not exist by then are never watched.  (Started after Stop, the goroutine ends at
\* once, the context being cancelled.)
StartFileWatching ==
    /\ ~ watch.on /\ ~ watch.stopped
    /\ watch' = [watch EXCEPT !.on = TRUE, !.files = {f \in Files : configFiles[f] /= NoFile}]
    /\ UNCHANGED <<config, changes, updates, holder, listeners, callbacks, registering, configFiles, writing, unread, writes>>

WatcherIdle == watch.on /\ updates[Watcher].step = "idle"

\* An event starts the debounce timer again.
OnFileEvent ==
    /\ WatcherIdle /\ watch.events
    /\ watch' = [watch EXCEPT !.events = FALSE, !.timer = TRUE]
    /\ UNCHANGED <<config, changes, updates, holder, listeners, callbacks, registering, configFiles, writing, unread, writes>>

\* The timer fires, and reloadFromFiles reads one file after the other.  A file that cannot be
\* parsed ends it, here before it comes to the local file.
ReadGlobal ==
    /\ WatcherIdle /\ watch.timer
    /\ LET failed == configFiles["global"] = Unreadable
       IN /\ watch' = [watch EXCEPT !.timer = FALSE, !.barred = IF failed THEN {"local"} ELSE {}]
          /\ updates' = [updates EXCEPT ![Watcher] =
                IF failed THEN Idle ELSE [step |-> "load", global |-> configFiles["global"]]]
    /\ unread' = unread \ {"global"}
    /\ UNCHANGED <<config, changes, holder, listeners, callbacks, registering, configFiles, writing, writes>>

ReadLocal ==
    /\ updates[Watcher].step = "load"
    /\ LET new == LoadConfig(updates[Watcher].global, configFiles["local"])
           loaded == configFiles["local"] /= Unreadable /\ ValidateConfig(new)
       IN updates' = [updates EXCEPT ![Watcher] =
             IF loaded /\ changes < MaxUpdates THEN [step |-> "swap", new |-> new] ELSE Idle]
    /\ unread' = unread \ {"local"}
    /\ UNCHANGED <<config, changes, holder, listeners, callbacks, registering, configFiles, writing, watch, writes>>

\* A reload under way goes on; what was not read then will not be.
StopWatching ==
    /\ watch.on
    /\ watch' = [on |-> FALSE, events |-> FALSE, timer |-> FALSE, stopped |-> TRUE, files |-> {}, barred |-> {}]
    /\ unread' = {}
    /\ UNCHANGED <<config, changes, updates, holder, listeners, callbacks, registering, configFiles, writing, writes>>

ConfigNext ==
    \/ BeginRegistration \/ RegisterCallback
    \/ ApplyProfile \/ ApplyEnvironmentOverrides \/ Swap \/ UpdateConfigField
    \/ BeginCalls \/ CallListener \/ UpdateReturns
    \/ EditFile \/ SaveConfig \/ FinishWrite \/ ReplaceFile
    \/ StartFileWatching \/ OnFileEvent \/ ReadGlobal \/ ReadLocal \/ StopWatching

-----------------------------------------------------------------------------
\* No registration overlapped this one, which is over.
Registered(i) == listeners[i].alone /\ i \notin registering

\* When no update is under way, every listener has been told exactly once of each change
\* since it was registered, whatever other listeners returned and however updates overlapped.
\* (In which order it was told is another matter: UpdateConfig calls without the mutex.  Of
\* registrations that overlap one is lost, RegisterCallback having no mutex: those listeners
\* may be told of nothing, but of no change twice.)
EveryListenerIsTold ==
    (\A u \in DOMAIN updates : updates[u].step \in {"idle", "swap", "load"}) =>
        \A i \in DOMAIN listeners :
            LET told == listeners[i].told
            IN /\ Registered(i) => (listeners[i].since + 1)..changes \subseteq {told[k] : k \in DOMAIN told}
               /\ \A k, l \in DOMAIN told : told[k] = told[l] => k = l

\* A write of a watched file that was not read yet will be: an event, the timer or a reload
\* that has not come to that file is under way, also when writes overlap a reload.  (Unless the
\* last reload ended at a global file it could not parse: the local file is read with the next.)
WritesAreReloaded ==
    \A f \in unread :
        \/ watch.events \/ watch.timer
        \/ updates[Watcher].step = "load" /\ f = "local"
        \/ f \in watch.barred

LoadsAsSaved(c, global) ==
    LET loaded == LoadConfig(global, c)
    IN \A s \in DOMAIN c : \A f \in DOMAIN c[s] :
          \/ loaded[s][f] = c[s][f]
          \/ f \notin Flags /\ c[s][f] = Zero(f)
          \/ s \in DOMAIN EnvSettings /\ f \in DOMAIN EnvSettings[s]

\* Whatever is installed, and whatever the global file becomes that can be parsed, the
\* configuration would load again as it is if it were saved then: only an unset value, and what
\* the environment sets, may come out different.
SavedLoadsAsSaved ==
    [][\/ <<config, configFiles>>' = <<config, configFiles>>
       \/ configFiles'["global"] = Unreadable
       \/ LoadsAsSaved(config', configFiles'["global"])]_configVars

\* A change reaches the listeners, and a write of a file the configuration.
ChangesArrive == EveryListenerIsTold /\ WritesAreReloaded
=============================================================================
