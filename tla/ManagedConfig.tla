----------------------------- MODULE ManagedConfig -----------------------------
(***************************************************************************)
(* OpenCode's configuration file, opencode.jsonc, and its writers: the     *)
(* definitions of agents (agents/opencodeConfig.ts, with markdown files    *)
(* besides), the MCP servers (mcp/service.ts and the routes), the entry of *)
(* the executor and the paths of skills (opencode/managedConfig.ts and     *)
(* ensureRuntimeConfigSynced).  Each writer reads the file, replaces its   *)
(* field and writes it in one go, and then tells one instance of OpenCode  *)
(* to forget what it has loaded: that of the configuration directory for   *)
(* agents, that of the workspace for the rest; a failure is ignored.       *)
(*                                                                         *)
(* Contents are numbers: 0 for none, the number of the request that wrote  *)
(* it, MaxManagedEdits + 1 for what the program sets itself.  An entry for *)
(* a server is written in a form: "plain" is one the program would write   *)
(* itself, "extra" has fields it does not know, "odd" it cannot parse.     *)
(***************************************************************************)
EXTENDS Naturals, FiniteSets

CONSTANTS
    Agents,         \* their names: numbers, in the order in which they sort
    Builtin,        \* those that have a definition without an entry in the file
    Undeletable,    \* those of NON_DELETABLE_BUILTIN_AGENT_IDS
    Servers,        \* MCP servers
    Executor,       \* the server that is the executor
    MaxManagedEdits,    \* bound: requests and edits by users
    MaxPatched,         \* bound: upserts and deletes of one request
    MaxSyncsAtOnce      \* bound: synchronisations under way

ASSUME ManagedAssumption ==
    /\ IsFiniteSet(Agents) /\ Agents \subseteq Nat
    /\ Builtin \subseteq Agents /\ Undeletable \subseteq Builtin
    /\ IsFiniteSet(Servers) /\ Executor \in Servers
    /\ MaxManagedEdits \in Nat /\ MaxPatched \in Nat /\ MaxSyncsAtOnce \in Nat \ {0}

VARIABLES
    agents,         \* the field agent
    markdown,       \* agents with a markdown file
    mcp,            \* the field mcp
    skillPaths,     \* the field skills names the managed root
    instance,       \* what OpenCode has loaded for the workspace: skillPaths or not
    agentEdits,     \* requests that change agents
    mcpEdits,       \* requests that change servers
    runtimeSyncs,   \* synchronisations of skillPaths: how many ask, found it absent, present
    synced,         \* runtimeConfigSyncKey is that of the workspace
    edits,          \* history: how many requests and edits so far
    outside,        \* history: a user has edited the file
    refused         \* history: the last step refused a request

managedVars == <<agents, markdown, mcp, skillPaths, instance, agentEdits, mcpEdits,
                 runtimeSyncs, synced, edits, outside, refused>>
managedFile == <<agents, markdown, mcp, skillPaths>>

EditNumbers == 0 .. MaxManagedEdits + 1
Agent == [text : EditNumbers, disabled : BOOLEAN]
NoAgent == [text |-> 0, disabled |-> FALSE]
Forms == {"plain", "extra", "odd"}
Server == [text : EditNumbers, on : BOOLEAN, form : Forms]
NoServer == [text |-> 0, on |-> FALSE, form |-> "plain"]
NoServers == [s \in Servers |-> NoServer]
ExecutorEntry == [text |-> MaxManagedEdits + 1, on |-> TRUE, form |-> "plain"]

\* builtinAgentTypeDefinition: what a name stands for that has no entry.
BuiltinAgent(a) == IF a \in Builtin THEN [text |-> MaxManagedEdits + 1, disabled |-> FALSE]
                   ELSE NoAgent

\* readEffectiveAgentTypeDefinitions: what is disabled is not seen.
Effective(map) ==
    [a \in Agents |-> IF map[a].disabled THEN NoAgent
                      ELSE IF map[a].text = 0 THEN BuiltinAgent(a)
                      ELSE map[a]]

\* fromOpencodeMcp drops what it cannot parse, and the fields it does not know.
Parsed(map) == [s \in Servers |-> IF map[s].form = "odd" THEN NoServer
                                  ELSE [map[s] EXCEPT !.form = "plain"]]

AgentEdit == [nr : 1 .. MaxManagedEdits, seen : [Agents -> Agent],
              upserts : SUBSET Agents, disable : BOOLEAN, deletes : SUBSET Agents]
McpEdit == [nr : 1 .. MaxManagedEdits, kind : {"servers", "enabled", "plain"}, hashed : BOOLEAN,
            at : {"asking", "checking", "telling"}, seen : [Servers -> Server],
            found : [Servers -> Server], servers : [Servers -> Server]]

ManagedTypeOK ==
    /\ agents \in [Agents -> Agent]
    /\ markdown \subseteq Agents
    /\ mcp \in [Servers -> Server]
    /\ skillPaths \in BOOLEAN
    /\ instance \in {"unloaded", "without", "with"}
    /\ agentEdits \subseteq AgentEdit
    /\ mcpEdits \subseteq McpEdit
    /\ runtimeSyncs \in [{"asking", "absent", "present"} -> 0 .. MaxSyncsAtOnce]
    /\ synced \in BOOLEAN
    /\ edits \in 0 .. MaxManagedEdits
    /\ outside \in BOOLEAN
    /\ refused \in BOOLEAN

\* ensureExecutorMcpServerConfigured has run before anything is served.
ManagedInit ==
    /\ agents = [a \in Agents |-> NoAgent]
    /\ markdown \in SUBSET Agents
    /\ mcp = [s \in Servers |-> IF s = Executor THEN ExecutorEntry ELSE NoServer]
    /\ skillPaths = FALSE
    /\ instance = "unloaded"
    /\ agentEdits = {} /\ mcpEdits = {}
    /\ runtimeSyncs = [asking |-> 0, absent |-> 0, present |-> 0]
    /\ synced = FALSE
    /\ edits = 0 /\ outside = FALSE /\ refused = FALSE

-------------------------------------------------------------------------------
(* Agents.                                                                 *)

Numbered == edits < MaxManagedEdits /\ edits' = edits + 1

\* A PATCH carries the hash of what its client saw, which is what was there when it
\* asked; validateOpencodeAgentPatch then awaits the providers.
AsksForAgents(upserts, disable, deletes) ==
    /\ Numbered
    /\ Cardinality(upserts) + Cardinality(deletes) \leq MaxPatched
    /\ disable => upserts # {}
    /\ agentEdits' = agentEdits \cup
            {[nr |-> edits + 1, seen |-> Effective(agents), upserts |-> upserts,
              disable |-> disable, deletes |-> deletes]}
    /\ refused' = FALSE
    /\ UNCHANGED <<managedFile, instance, mcpEdits, runtimeSyncs, synced, outside>>

BUG_Unchanged(r) == TRUE
\* patchOpencodeAgentTypes: the definitions are those the client saw.
Unchanged(r) == Effective(agents) = r.seen

\* Definitions are removed in the order of their names, with their markdown files,
\* up to one that cannot be.
Removable(r) == {a \in r.deletes : \A b \in r.deletes \cap Undeletable : a < b}

Merged(r) ==
    [a \in Agents |-> IF a \in r.upserts THEN [text |-> r.nr, disabled |-> r.disable]
                      ELSE IF a \in r.deletes THEN NoAgent ELSE agents[a]]

RefusesPatch(r) ==
    /\ agentEdits' = agentEdits \ {r}
    /\ refused' = TRUE
    /\ UNCHANGED <<agents, mcp, skillPaths, instance, mcpEdits, runtimeSyncs, synced, edits,
                   outside>>

\* Refused too when the providers do not know a model of it.  disposeOpencodeInstance,
\* which an accepted one awaits last, is for the instance of the configuration directory,
\* which nothing here asks.
PatchesAgents(r) ==
    /\ r \in agentEdits
    /\ \/ RefusesPatch(r) /\ UNCHANGED markdown
       \/ /\ Unchanged(r) /\ r.deletes \cap Undeletable # {}
          /\ markdown' = markdown \ Removable(r)
          /\ RefusesPatch(r)
       \/ /\ Unchanged(r) /\ r.deletes \cap Undeletable = {}
          /\ agents' = Merged(r)
          /\ markdown' = markdown \ r.deletes
          /\ agentEdits' = agentEdits \ {r}
          /\ refused' = FALSE
          /\ UNCHANGED <<mcp, skillPaths, instance, mcpEdits, runtimeSyncs, synced, edits, outside>>

-------------------------------------------------------------------------------
(* MCP servers.                                                            *)

\* A client asks for the servers it has seen with one put in or taken out, or, with
\* the list of those to be enabled, for nothing else to change.
Asked(kind, nr) ==
    LET seen == Parsed(mcp)
    IN  IF kind = "enabled"
        THEN {[s \in Servers |-> [seen[s] EXCEPT !.on = s \in on]] : on \in SUBSET Servers}
        ELSE {[seen EXCEPT ![s] = new] :
                s \in Servers, new \in {NoServer, [text |-> nr, on |-> TRUE, form |-> "plain"]}}

\* The routes take the hash of what the client saw, if it sends one; that of PUT
\* /api/mockingbird/mcp takes none.
AsksForServers(kind, hashed) ==
    /\ Numbered
    /\ hashed => kind # "plain"
    /\ \E servers \in Asked(kind, edits + 1) :
        mcpEdits' = mcpEdits \cup {[nr |-> edits + 1, kind |-> kind, hashed |-> hashed,
                                    at |-> "asking", seen |-> Parsed(mcp), found |-> NoServers,
                                    servers |-> servers]}
    /\ refused' = FALSE
    /\ UNCHANGED <<managedFile, instance, agentEdits, runtimeSyncs, synced, outside>>

\* loadEffectiveMcpConfig is awaited, though it only reads the file: the request
\* goes on in the next microtask with what it found, nothing where the file cannot
\* be read.
FindsServers(r) ==
    /\ r \in mcpEdits /\ r.at = "asking" /\ r.kind # "plain"
    /\ \E found \in {Parsed(mcp), NoServers} :
        mcpEdits' = (mcpEdits \ {r}) \cup {[r EXCEPT !.at = "checking", !.found = found]}
    /\ refused' = FALSE
    /\ UNCHANGED <<managedFile, instance, agentEdits, runtimeSyncs, synced, edits, outside>>

\* Only requests that are in the same place come between.
Checking == \E r \in mcpEdits : r.at = "checking"

\* assertExpectedHashMatches, on what was parsed.
ServerHashMatches(r) == r.hashed => r.found = r.seen

\* The list of the enabled is applied to what was found.  What is written takes the
\* place of the whole field, with what could not be parsed.
Wanted(r) ==
    IF r.kind # "enabled" THEN r.servers
    ELSE [s \in Servers |-> IF r.found[s].text = 0 THEN NoServer
                            ELSE [r.found[s] EXCEPT !.on = r.servers[s].on]]

\* patchManagedOpencodeConfig, or persistMcpServers.
WritesServers(r) ==
    /\ r \in mcpEdits
    /\ r.at = (IF r.kind = "plain" THEN "asking" ELSE "checking")
    /\ \/ /\ ServerHashMatches(r)
          /\ mcp' = Wanted(r)
          /\ mcpEdits' = (mcpEdits \ {r}) \cup {[r EXCEPT !.at = "telling"]}
          /\ refused' = FALSE
       \/ /\ ~ServerHashMatches(r)
          /\ mcpEdits' = mcpEdits \ {r}
          /\ refused' = TRUE
          /\ UNCHANGED mcp
    /\ UNCHANGED <<agents, markdown, skillPaths, instance, agentEdits, runtimeSyncs, synced, edits,
                   outside>>

Tells == instance' \in {"unloaded", instance}

\* disposeManagedOpencodeInstance.
ServersTold(r) ==
    /\ r \in mcpEdits /\ r.at = "telling"
    /\ Tells
    /\ mcpEdits' = mcpEdits \ {r}
    /\ refused' = FALSE
    /\ UNCHANGED <<managedFile, agentEdits, runtimeSyncs, synced, edits, outside>>

\* ensureExecutorMcpServerConfigured, at a start or when the settings change, looks
\* at the type, the address and whether it is enabled, and writes this entry only.
ReconcilesExecutor ==
    /\ mcp[Executor].text # ExecutorEntry.text \/ ~mcp[Executor].on
    /\ mcp' = [mcp EXCEPT ![Executor] = ExecutorEntry]
    /\ Tells
    /\ refused' = FALSE
    /\ UNCHANGED <<agents, markdown, skillPaths, agentEdits, mcpEdits, runtimeSyncs, synced, edits,
                   outside>>

-------------------------------------------------------------------------------
(* Paths of skills.                                                        *)

\* ensureRuntimeConfigSynced: a caller waits for the synchronisation under way; those
\* that find it has failed all start one of their own.
StartsSync ==
    /\ ~synced
    /\ runtimeSyncs.asking + runtimeSyncs.absent + runtimeSyncs.present < MaxSyncsAtOnce
    /\ runtimeSyncs' = [runtimeSyncs EXCEPT !.asking = @ + 1]
    /\ refused' = FALSE
    /\ UNCHANGED <<managedFile, instance, agentEdits, mcpEdits, synced, edits, outside>>

\* OpenCode answers with what the instance of the workspace has loaded.
SyncAnswered ==
    /\ runtimeSyncs.asking > 0
    /\ instance # "unloaded"
    /\ LET found == IF instance = "with" THEN "present" ELSE "absent"
       IN  runtimeSyncs' = [runtimeSyncs EXCEPT !.asking = @ - 1, ![found] = @ + 1]
    /\ refused' = FALSE
    /\ UNCHANGED <<managedFile, instance, agentEdits, mcpEdits, synced, edits, outside>>

SyncApplies(found) ==
    /\ runtimeSyncs[found] > 0
    /\ IF found = "absent" THEN skillPaths' = TRUE /\ Tells
       ELSE UNCHANGED <<skillPaths, instance>>
    /\ runtimeSyncs' = [runtimeSyncs EXCEPT ![found] = @ - 1]
    /\ synced' = TRUE
    /\ refused' = FALSE
    /\ UNCHANGED <<agents, markdown, mcp, agentEdits, mcpEdits, edits, outside>>

SyncGivesUp ==
    /\ runtimeSyncs.asking > 0
    /\ runtimeSyncs' = [runtimeSyncs EXCEPT !.asking = @ - 1]
    /\ refused' = FALSE
    /\ UNCHANGED <<managedFile, instance, agentEdits, mcpEdits, synced, edits, outside>>

-------------------------------------------------------------------------------
(* OpenCode and users.                                                     *)

\* It also forgets what it has loaded of its own accord, or when it is told so late
\* that nobody waits for its answer.
InstanceLoads ==
    /\ instance' = IF instance # "unloaded" THEN "unloaded"
                   ELSE IF skillPaths THEN "with" ELSE "without"
    /\ refused' = FALSE
    /\ UNCHANGED <<managedFile, agentEdits, mcpEdits, runtimeSyncs, synced, edits, outside>>

\* A user edits the file, or an agent's markdown file.
UserEditsManaged ==
    /\ Numbered
    /\ \/ /\ \E a \in Agents : agents' = [agents EXCEPT ![a] = [text |-> edits + 1,
                                                               disabled |-> FALSE]]
          /\ UNCHANGED <<mcp, skillPaths, markdown>>
       \/ /\ \E s \in Servers, form \in Forms :
                mcp' = [mcp EXCEPT ![s] = [text |-> edits + 1, on |-> FALSE, form |-> form]]
          /\ UNCHANGED <<agents, skillPaths, markdown>>
       \/ skillPaths' = FALSE /\ UNCHANGED <<agents, mcp, markdown>>
       \/ (\E a \in Agents : markdown' = markdown \cup {a}) /\ UNCHANGED <<agents, mcp, skillPaths>>
    /\ outside' = TRUE
    /\ refused' = FALSE
    /\ UNCHANGED <<instance, agentEdits, mcpEdits, runtimeSyncs, synced>>

ManagedNext ==
    \/ \E r \in mcpEdits : FindsServers(r) \/ WritesServers(r)
    \/ /\ ~Checking
       /\ \/ \E upserts, deletes \in SUBSET Agents, disable \in BOOLEAN :
                AsksForAgents(upserts, disable, deletes)
          \/ \E r \in agentEdits : PatchesAgents(r)
          \/ \E kind \in {"servers", "enabled", "plain"}, hashed \in BOOLEAN :
                AsksForServers(kind, hashed)
          \/ \E r \in mcpEdits : ServersTold(r)
          \/ ReconcilesExecutor
          \/ StartsSync \/ SyncAnswered \/ SyncGivesUp
          \/ \E found \in {"absent", "present"} : SyncApplies(found)
          \/ InstanceLoads
          \/ UserEditsManaged

ManagedSpec == ManagedInit /\ [][ManagedNext]_managedVars

-------------------------------------------------------------------------------
(* Properties.                                                             *)

\* What the client of r saw, with the changes r asks for: what it deletes has the
\* definition it had before anybody gave it another.
WithChanges(r) ==
    [a \in Agents |-> IF a \notin r.upserts
                      THEN IF a \in r.deletes THEN BuiltinAgent(a) ELSE r.seen[a]
                      ELSE IF r.disable THEN NoAgent
                      ELSE [text |-> r.nr, disabled |-> FALSE]]

\* Another request was at the same place at once, or the file could not be read.
Overtaken(r) == r.found = NoServers \/ \E q \in mcpEdits : q.at = "telling"

\* No writer undoes what another has done to the file in the meantime.  A change of
\* agents that is accepted leaves the definitions its client saw with its changes to
\* them, although providers were awaited in between, and no markdown file of what it
\* deletes; one that is refused leaves all definitions, and all markdown files too if
\* other definitions are there than its client saw.  Of a request that names an agent
\* that cannot be deleted the files of others it names may be gone though it is
\* refused, that agent's never.  A change of servers under a hash is made to the
\* servers its client saw, and the list of the enabled takes no server away that the
\* program can parse, unless it was overtaken: entries it cannot parse, and fields it
\* does not know, are lost in every change of servers, and a hash does not tell.  The
\* paths of skills stay, once set, unless a user removes them
\* (patchOpencodeAgentTypes, applyMcpConfigUpdate, ensureRuntimeConfigSynced).
WritersKeepOthers ==
    [][/\ ManagedTypeOK'
       /\ refused' => agents' = agents /\ mcp' = mcp
       /\ Undeletable \cap markdown \subseteq markdown'
       /\ \A r \in agentEdits \ agentEdits' :
            IF refused'
            THEN /\ markdown \ r.deletes \subseteq markdown'
                 /\ Effective(agents) # r.seen => markdown' = markdown
            ELSE /\ Effective(agents') = WithChanges(r)
                 /\ r.deletes \cap markdown' = {}
       /\ \A r \in mcpEdits \ mcpEdits' :
            r.at = "checking" /\ ~refused' /\ ~Overtaken(r) =>
                /\ r.hashed => Parsed(mcp) = r.seen
                /\ r.kind = "enabled" => \A s \in Servers : mcp'[s].text = Parsed(mcp)[s].text
       /\ synced' /\ ~outside' => skillPaths']_managedVars
===============================================================================
