------------------------------ MODULE Settings ------------------------------
(***************************************************************************)
(* nucleon/config.py and nucleon/loader.py: the settings object and the    *)
(* global application of each Python process.  The actions say what a call *)
(* does to them and whether it raises; Startup calls them.                 *)
(***************************************************************************)
EXTENDS Naturals, FiniteSets

CONSTANTS
    Procs,      \* Python processes: commands and test runs
    Names,      \* names somebody may ask an environment by
    Contents,   \* what app.cfg may be: sets of section names
    None        \* no name: the variable is not set, no section is loaded

DEFAULT_ENVIRONMENT == "default"

ASSUME SettingsAssumption ==
    /\ DEFAULT_ENVIRONMENT \in Names
    /\ Contents \subseteq SUBSET Names
    /\ None \notin Names

VARIABLES
    variable,   \* NUCLEON_CONFIGURATION of the shell all processes come from
    sections,   \* the sections app.cfg has
    readable,   \* TRUE if app.cfg can be opened
    section,    \* self._settings: the section it is a copy of, None while {}
    locked,     \* self._locked
    app,        \* loader.app: "none", "half" (assigned), "ready" (_path set too)
    seen        \* history: the sections a value was ever read from

shell == <<variable, sections, readable>>
settingsVars == <<shell, section, locked, app, seen>>

SettingsInit ==
    /\ variable \in Names \cup {None}
    /\ sections \in Contents
    /\ readable \in BOOLEAN
    /\ section = [p \in Procs |-> None]
    /\ locked = [p \in Procs |-> FALSE]
    /\ app = [p \in Procs |-> "none"]
    /\ seen = [p \in Procs |-> {}]

\* os.environ.get('NUCLEON_CONFIGURATION', environment): whatever was asked
\* for, the variable decides.
SectionFor(name) == IF variable = None THEN name ELSE variable

\* Mutant of SetEnvironment: with the environment locked it returns silently.
SetEnvironmentQuiet(p, name, haveconfig, raised) ==
    \/ /\ name = section[p] \/ locked[p] \/ ~ haveconfig
       /\ ~ raised
       /\ UNCHANGED section
    \/ /\ name # section[p] /\ ~ locked[p] /\ haveconfig
       /\ raised = (SectionFor(name) \notin sections)
       /\ section' = IF raised THEN section ELSE [section EXCEPT ![p] = SectionFor(name)]

\* _set_environment(name).  It compares the name it was given with the loaded
\* section, so with the variable set a second call is no change and yet raises
\* once the environment is locked.
SetEnvironment(p, name, haveconfig, raised) ==
    \/ /\ name = section[p] \/ (~ locked[p] /\ ~ haveconfig)
       /\ ~ raised
       /\ UNCHANGED section
    \/ /\ name # section[p]
       /\ locked[p] \/ (haveconfig /\ SectionFor(name) \notin sections)
       /\ raised
       /\ UNCHANGED section
    \/ /\ name # section[p] /\ ~ locked[p] /\ haveconfig
       /\ SectionFor(name) \in sections
       /\ ~ raised
       /\ section' = [section EXCEPT ![p] = SectionFor(name)]

\* Mutant of Read: the environment is not locked.
ReadUnlocked(p) ==
    /\ seen' = [seen EXCEPT ![p] = @ \cup ({section[p]} \ {None})]
    /\ UNCHANGED <<shell, section, locked, app>>

\* settings.key: locks the environment before the key is looked up, also if
\* there is none.  It raises ConfigurationError while no section is loaded.
Read(p) ==
    /\ locked' = [locked EXCEPT ![p] = TRUE]
    /\ seen' = [seen EXCEPT ![p] = @ \cup ({section[p]} \ {None})]
    /\ UNCHANGED <<shell, section, app>>

\* The application's own code calls _set_environment().
Switch(p, name) ==
    /\ \E raised \in BOOLEAN : SetEnvironment(p, name, app[p] # "none" /\ readable, raised)
    /\ UNCHANGED <<shell, locked, app, seen>>

-----------------------------------------------------------------------------
\* get_app() returns the application that is there, even a half-made one.
Known(p, raised) ==
    /\ app[p] # "none"
    /\ ~ raised
    /\ UNCHANGED settingsVars

\* There is no app.py, or importing it raises.  It may have read a setting on
\* the way: none is loaded yet, so that alone raises ConfigurationError.
ImportRaises(p, raised) ==
    /\ app[p] = "none"
    /\ raised
    /\ \E reads \in BOOLEAN : locked' = [locked EXCEPT ![p] = @ \/ reads]
    /\ UNCHANGED <<shell, section, app, seen>>

\* app.py was imported, a ConfigurationError it may have met caught in it, and
\* the global is assigned; then settings._load(), which refuses if settings
\* were read, before or during the import; then app._path.
Imported(p, raised) ==
    /\ app[p] = "none"
    /\ \/ /\ raised
          /\ locked' = [locked EXCEPT ![p] = TRUE]
          /\ UNCHANGED section
       \/ /\ ~ locked[p]
          /\ SetEnvironment(p, DEFAULT_ENVIRONMENT, readable, raised)
          /\ UNCHANGED locked
    /\ app' = [app EXCEPT ![p] = IF raised THEN "half" ELSE "ready"]
    /\ UNCHANGED <<shell, seen>>

GetApp(p, raised) == Known(p, raised) \/ ImportRaises(p, raised) \/ Imported(p, raised)

-----------------------------------------------------------------------------
SettingsTypeOK ==
    /\ variable \in Names \cup {None}
    /\ sections \in Contents
    /\ readable \in BOOLEAN
    /\ section \in [Procs -> sections \cup {None}]
    /\ locked \in [Procs -> BOOLEAN]
    /\ app \in [Procs -> {"none", "half", "ready"}]
    /\ seen \in [Procs -> SUBSET sections]

\* docs/configuration.rst: an application must not "become partially configured
\* for multiple different environments at the same time": all the values a
\* process ever reads, at import, in callbacks, for the log or in a test, are
\* of one section, however often and in which order get_app() and
\* _set_environment() are called, succeed and raise.
OneEnvironment == \A p \in Procs : Cardinality(seen[p]) <= 1
=============================================================================
