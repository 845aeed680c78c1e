------------------------------ MODULE Settings ------------------------------
(***************************************************************************)
(* The settings of the services master and proxy (core/settings.cpp and    *)
(* the first half of their onStart): what the file holds, the defaults of  *)
(* what it does not, and --edit-settings.                                  *)
(***************************************************************************)
EXTENDS Application

CONSTANTS
    ConfigFiles,   \* program -> the settings its file may hold: a set of functions
    Answers        \* setting -> the texts an operator may type for it

VARIABLES
    stored,        \* what the file held when the program began
    settings,      \* QSettings: name -> value
    prompts        \* the names that setup() has not come to

settingsVars == <<stored, settings, prompts>>

NoSettings == [n \in {} |-> ""]

SettingsIdle == stored = NoSettings /\ settings = NoSettings /\ prompts = <<>>

Url(scheme, host, port) == [scheme |-> scheme, host |-> host, port |-> port]

(* The parameters of a program, in the order of m_parameters.              *)
Parameters ==
    [master |-> <<"master/bundle-rootpath", "master/pidfile", "master/registry-service-name">>,
     proxy  |-> <<"intf-console/keystore-path", "intf-console/keystore-pwd", "intf-console/listen-uri",
                  "intf-main/format", "intf-main/keystore-path", "intf-main/keystore-pwd", "intf-main/listen-uri">>]

Defaults ==
    [n \in Range(Parameters.master) \cup Range(Parameters.proxy) |->
        CASE n = "intf-main/listen-uri"       -> <<Url("ssl", "[::]", 0)>>
          [] n = "intf-console/listen-uri"    -> <<Url("http", "localhost", 3695)>>
          [] n = "intf-main/format"           -> "JSON"
          [] n = "intf-main/keystore-path"    -> "keystore.p12"
          [] n = "master/bundle-rootpath"     -> "plugins"
          [] OTHER                            -> ""]

(* Settings::define of each name: a value that is there stays.             *)
Define(values, names) ==
    [n \in DOMAIN values \cup names |-> IF n \in DOMAIN values THEN values[n] ELSE Defaults[n]]

OpenSettings ==
    /\ prog \in DOMAIN Parameters /\ stage = "exec"
    /\ stored' \in ConfigFiles[prog]
    /\ settings' = Define(stored', Range(Parameters[prog]))
    /\ IF IsEnabled("editSettings") THEN stage' = "setup" /\ prompts' = Parameters[prog]
       ELSE stage' = "configured" /\ prompts' = <<>>
    /\ UNCHANGED <<prog, argv, cli, exit>>

(* One question of Settings::setup: an empty answer changes nothing.       *)
Answer ==
    /\ stage = "setup" /\ prompts # <<>>
    /\ \/ UNCHANGED settings
       \/ \E a \in Answers[Head(prompts)] : settings' = [settings EXCEPT ![Head(prompts)] = a]
    /\ prompts' = Tail(prompts)
    /\ UNCHANGED <<prog, argv, stage, cli, exit, stored>>

EndSetup ==
    /\ stage = "setup" /\ prompts = <<>>
    /\ Return("0")
    /\ UNCHANGED <<prog, argv, cli>> /\ UNCHANGED settingsVars

SettingsNext == OpenSettings \/ Answer \/ EndSetup
=============================================================================
