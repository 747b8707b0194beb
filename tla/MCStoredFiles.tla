----------------------------- MODULE MCStoredFiles -----------------------------
(* The components that keep their state in files, or in a row of their own, and *)
(* share it with no other component, for TLC.  Each has its own state, so a     *)
(* behaviour is one of one of them; the others stay as they begin, and begin    *)
(* in one way.                                                                  *)
EXTENDS MCConfigApply, MCMemoryIndex, MCInstaller, MCVendorSync, MCSkills, MCManagedConfig,
        Heartbeat, MCOpenclawImport

VARIABLE kept

FilesInit ==
    /\ kept \in {"configuration", "memory", "installation", "forks",
                "skills", "opencode", "heartbeat", "import"}
    /\ ConfigInit /\ MemoryInit /\ InstallerInit /\ ManagedInit /\ HeartbeatInit
    /\ VendorInit /\ SkillsInit /\ OpenclawInit
    /\ markdown = IF kept = "opencode" THEN Agents ELSE {}
    /\ kept # "heartbeat" => enabled
    /\ kept # "forks" => fork = "opencode"
    /\ kept # "skills" => \A s \in SkillIds : skills[s] = NoCopies
    /\ kept # "import" => fromGit /\ \A t \in Targets : target[t] = Missing
    /\ skills[s2] = NoCopies
    /\ \A t \in Targets \ {"AGENTS.md"} : target[t] = Missing

FilesNext ==
    /\ UNCHANGED kept
    /\ \/ kept = "configuration" /\ ConfigNext
          /\ UNCHANGED <<memoryVars, installerVars, vendorVars, skillsVars, managedVars,
                         heartbeatVars, openclawVars>>
       \/ kept = "memory" /\ MemoryNext
          /\ UNCHANGED <<configVars, installerVars, vendorVars, skillsVars, managedVars,
                         heartbeatVars, openclawVars>>
       \/ kept = "installation" /\ InstallerNext
          /\ UNCHANGED <<configVars, memoryVars, vendorVars, skillsVars, managedVars,
                         heartbeatVars, openclawVars>>
       \/ kept = "forks" /\ VendorNext
          /\ UNCHANGED <<configVars, memoryVars, installerVars, skillsVars, managedVars,
                         heartbeatVars, openclawVars>>
       \/ kept = "skills" /\ SkillsNext
          /\ UNCHANGED <<configVars, memoryVars, installerVars, vendorVars, managedVars,
                         heartbeatVars, openclawVars>>
       \/ kept = "opencode" /\ ManagedNext
          /\ UNCHANGED <<configVars, memoryVars, installerVars, vendorVars, skillsVars,
                         heartbeatVars, openclawVars>>
       \/ kept = "heartbeat" /\ HeartbeatNext
          /\ UNCHANGED <<configVars, memoryVars, installerVars, vendorVars, skillsVars,
                         managedVars, openclawVars>>
       \/ kept = "import" /\ OpenclawNext
          /\ UNCHANGED <<configVars, memoryVars, installerVars, vendorVars, skillsVars,
                         managedVars, heartbeatVars>>

FilesSpec ==
    FilesInit /\ [][FilesNext]_<<configVars, memoryVars, installerVars, vendorVars, skillsVars,
                                  managedVars, heartbeatVars, openclawVars, kept>>
===============================================================================
