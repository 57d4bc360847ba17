-------------------------------- MODULE Options --------------------------------
(***************************************************************************)
(* The options of the client and the sources they come from (options.h,    *)
(* options.cc): command line, environment, the user's and the global       *)
(* configuration file.                                                     *)
(*                                                                         *)
(* A source is a function from the names it sets to their values.  Of each *)
(* group of options (environment only, common, restricted, command line)   *)
(* the model keeps the ones the rest of the client branches on, and one    *)
(* that it does not.                                                       *)
(***************************************************************************)
EXTENDS Integers, FiniteSets, TLC

EnvOptions == {"authorization_token"}

CommonOptions == {"authentication", "provider_hostname"}

RestrictedOptions == {"enable_env_option_override", "cluster_ping_interval"}

CommandLineOptions == {"authentication", "config", "help", "mountpoint", "foreground"}

NoOptions == [o \in {} |-> ""]

OnlyOf(source, names) == [o \in (DOMAIN source) \cap names |-> source[o]]

\* The outcome of parsing: what stopped it, "" for nothing, and the map m_vm.
Parsed(error, vm) == [error |-> error, vm |-> vm]

\* getters with a default, and has_*.
Has(vm, option) == option \in DOMAIN vm

Get(vm, option, default) == IF Has(vm, option) THEN vm[option] ELSE default

\* Whether the arguments parse; cmdParser() takes a dash for an underscore.
ParseCommandLine(cmd) == DOMAIN cmd \subseteq CommandLineOptions

ParseUserConfig(cmd, user) == IF Has(cmd, "config") THEN user ELSE NoOptions

\* What store() has put into the map stays there.
ParseGlobalConfig(fileConfig, global) == fileConfig @@ global

\* Variant: a variable of the environment is taken although its option is set.
MapEnvNamesAlways(vm, env) == OnlyOf(env, EnvOptions \cup CommonOptions)

MapEnvNames(vm, env) == OnlyOf(env, (EnvOptions \cup CommonOptions) \ DOMAIN vm)

ParseEnv(vm, env) == MapEnvNames(vm, env) @@ vm

MergedConfig(cmd, env, fileConfig) ==
    IF Get(fileConfig, "enable_env_option_override", TRUE)
    THEN ParseEnv(cmd, env) @@ fileConfig
    ELSE ParseEnv(cmd @@ fileConfig, env)

ParseConfigs(cmd, env, user, global) ==
    LET fileUser == ParseUserConfig(cmd, user)
        vm == MergedConfig(cmd, env, ParseGlobalConfig(fileUser, global))
    IN  IF ~ParseCommandLine(cmd) THEN Parsed("command line", NoOptions)
        ELSE IF Has(cmd, "help") THEN Parsed("", cmd)
        ELSE IF ~(DOMAIN fileUser \subseteq CommonOptions) THEN Parsed("user file", cmd)
        ELSE IF ~(DOMAIN global \subseteq CommonOptions \cup RestrictedOptions)
        THEN Parsed("global file", cmd)
        ELSE IF ~Has(vm, "mountpoint") THEN Parsed("required option", vm)
        ELSE Parsed("", vm)

\* -d and -f keep the client in the foreground.
GetFuseArgs(vm) == [foreground |-> Has(vm, "foreground"), mountpoint |-> vm["mountpoint"]]

\* ------------------------------------------------------------- the property
\* The sources of an option in the order the comment of the class gives, each
\* with the names it may set.
Precedence(cmd, env, user, global) ==
    LET c == <<cmd, CommandLineOptions>>
        e == <<env, EnvOptions \cup CommonOptions>>
        u == <<IF Has(cmd, "config") THEN user ELSE NoOptions, CommonOptions>>
        g == <<global, CommonOptions \cup RestrictedOptions>>
    IN  IF Get(global, "enable_env_option_override", TRUE) THEN <<c, e, u, g>>
                                                           ELSE <<c, u, g, e>>

\* Every source sets any of the options to a value that names the source; the
\* user's file may hold a restricted option too, which must be refused.
SourcesOf(name, options) ==
    UNION {[D -> {name}] : D \in SUBSET options}

\* parseConfigs() gives every option the value of the most important source
\* that sets it, in the order that the comment of class Options documents, and
\* refuses a user's file that sets an option restricted to the global one.
OptionPrecedence ==
    \A cmd \in SourcesOf("command line", {"authentication", "config"}),
       env \in SourcesOf("environment", EnvOptions \cup CommonOptions \cup RestrictedOptions),
       user \in SourcesOf("user file", CommonOptions \cup {"cluster_ping_interval"}),
       globalFile \in SourcesOf("global file", CommonOptions \cup {"cluster_ping_interval"}),
       override \in {NoOptions} \cup [{"enable_env_option_override"} -> BOOLEAN] :
        LET argv   == cmd @@ [o \in {"mountpoint"} |-> "command line"]
            global == globalFile @@ override
            parsed == ParseConfigs(argv, env, user, global)
            order  == Precedence(argv, env, user, global)
        IN  IF Has(cmd, "config") /\ Has(user, "cluster_ping_interval")
            THEN parsed.error = "user file"
            ELSE /\ parsed.error = ""
                 /\ \A o \in EnvOptions \cup CommonOptions \cup RestrictedOptions :
                      LET setting == {i \in 1..4 : o \in (DOMAIN order[i][1]) \cap order[i][2]}
                      IN  IF setting = {}
                          THEN ~Has(parsed.vm, o)
                          ELSE \E i \in setting :
                                  /\ \A j \in setting : i <= j
                                  /\ Get(parsed.vm, o, "") = order[i][1][o]
===============================================================================
