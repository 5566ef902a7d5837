------------------------------- MODULE Config -------------------------------
(***************************************************************************)
(* The settings that decide what the client does (pgConfigs.go): flags go  *)
(* into the configuration read from a file, and what is then missing gets  *)
(* a default.                                                              *)
(*                                                                         *)
(* A flag is "none" when it is not given, a line of the file "absent". All *)
(* settings here are Booleans; updRate stands for UPDATE_RATE > 0. The     *)
(* loader of configurations belongs to go-tools and is modelled by how     *)
(* this code uses it.                                                      *)
(***************************************************************************)

Settings == {"doDataload", "doViewload", "doIndexload", "doQueries", "doUpdates",
             "isRedirect", "updRate"}

\* What the variables of the package hold before anything is loaded.
PackageDefault ==
  [s \in Settings |-> s \notin {"doUpdates", "isRedirect", "updRate", "doIndexload"}]

\* What loadConfigsFile gives a setting that is missing: what the variable holds,
\* but true for doIndexload, whose variable is false and whose help says
\* "Default: false" (pgConfigs.go:30, :65).
Default == [PackageDefault EXCEPT !["doIndexload"] = TRUE]

isFlagValid(flag) == flag # "none"

\* Bug-seeded: one more condition that was copied and not changed.
FlagTested_Copied(s) ==
  IF s = "doIndexload" THEN "doViewload" ELSE IF s = "doUpdates" THEN "doQueries" ELSE s

\* The flag that is tested before that of setting s is put into the
\* configuration: not always the same.
FlagTested(s) == IF s = "doIndexload" THEN "doViewload" ELSE s

\* The configuration loadFlags leaves.
loadFlags(flags, file) ==
  [s \in Settings |-> IF isFlagValid(flags[FlagTested(s)]) THEN flags[s] ELSE file[s]]

\* What the loader may make of an entry; "none" is no Boolean.
GetBoolConfig(entry, default) ==
  CASE entry = "absent"           -> {default}
    [] entry = "none"             -> BOOLEAN
    [] entry \in {"true", "false"} -> {entry = "true"}

loadConfigsFile(configs) ==
  {settings \in [Settings -> BOOLEAN] :
     \A s \in Settings : settings[s] \in GetBoolConfig(configs[s], Default[s])}

loadConfigs(input) == loadConfigsFile(loadFlags(input.flags, input.file))

\* RESET_ONLY, as the code has it: any value of the flag resets, "false" too. Its
\* help says to "set this flag to true" (pgConfigs.go:80).
ResetOnly(input) == isFlagValid(input.reset)

\* What can be given to the program.
Input == [flags : [Settings -> {"none", "true", "false"}],
          file  : [Settings -> {"absent", "true", "false"}],
          reset : {"none", "true", "false"}]

\* What a user means who gives it: the flag, or else the line of the file, or else
\* the default of the package, which is that of the help where the help names one.
\* The code departs from it for doIndexload alone: FlagTested and Default.
Meant(input, s) ==
  IF isFlagValid(input.flags[s]) THEN input.flags[s] = "true"
  ELSE IF input.file[s] # "absent" THEN input.file[s] = "true" ELSE PackageDefault[s]
=============================================================================
