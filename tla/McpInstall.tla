------------------------------ MODULE McpInstall ------------------------------
(***************************************************************************)
(* monad mcp install: it reads the configuration of each agent client,     *)
(* enters the monad-mcp server and writes it back through a temporary      *)
(* file, while the client, or another install, may do the same.  A         *)
(* configuration is the entry of monad, the entries of other servers and   *)
(* whether it is whole; Codex's TOML and the JSON of the others differ     *)
(* in form only.                                                           *)
(***************************************************************************)
EXTENDS Naturals, FiniteSets

CONSTANTS
  Clients,     \* claude-code, cursor, windsurf, claude-desktop, codex, opencode, zed
  HomeOnly,    \* those without a configuration in the project (windsurf, claude-desktop)
  Installs,    \* invocations of monad mcp install
  Entries,     \* what they enter for monad: --workspace or not
  Foreign,     \* servers of somebody else
  NoEntry,     \* monad is not entered
  NoClient     \* an invocation is at no client

ASSUME HomeOnlyAreClients == HomeOnly \subseteq Clients

VARIABLES
  config,      \* the file of each client
  tmpFile,     \* .<name>.monad-mcp.tmp beside it: what it holds
  present,     \* clients whose directory is in the home
  invocation,  \* what each install asks for and where it is
  document,    \* what it has read, and will write
  raced,       \* history: files written by another between a read and its rename
  mixed        \* history: files two installs wrote at a time

installVars == <<config, tmpFile, present, invocation, document, raced, mixed>>

Absent == [whole |-> TRUE, exists |-> FALSE, object |-> TRUE, foreign |-> {}, monad |-> NoEntry]
Torn   == [Absent EXCEPT !.whole = FALSE, !.exists = TRUE]
Files  == [whole : BOOLEAN, exists : BOOLEAN, object : BOOLEAN, foreign : SUBSET Foreign,
           monad : Entries \cup {NoEntry}]
FirstFiles == [whole : {TRUE}, exists : {TRUE}, object : BOOLEAN, foreign : SUBSET Foreign, monad : {NoEntry}]
Idle   == [at |-> "off", client |-> NoClient, todo |-> {}, entry |-> NoEntry]

(* A client has no configuration, one with servers of others, or one that  *)
(* holds something else where the servers should be.                       *)
InstallInit ==
  /\ config \in [Clients -> {Absent} \cup FirstFiles]
  /\ tmpFile = [c \in Clients |-> Absent]
  /\ present \in SUBSET Clients
  /\ invocation = [i \in Installs |-> Idle]
  /\ document = [i \in Installs |-> Absent]
  /\ raced = {} /\ mixed = {}

Others(i)      == Installs \ {i}
Renames(i, c)  == invocation[i].client = c /\ invocation[i].at \in {"write", "rename"}
Step(i, place) == invocation' = [invocation EXCEPT ![i].at = place]

(* The invocation ends, with what it knew. *)
Leave(i, place) ==
  /\ invocation' = [invocation EXCEPT ![i] = [Idle EXCEPT !.at = place]]
  /\ document' = [document EXCEPT ![i] = Absent]

(* config_path fails for a client without a project file under --local;    *)
(* expand_auto keeps those with a file or an installation.                 *)
Detected(local) ==
  {c \in Clients : ~ (local /\ c \in HomeOnly) /\ (config[c].exists \/ c \in present)}

(* run: `auto`, which fails if nothing is detected, or one client. *)
StartInstall(i) ==
  /\ invocation[i] = Idle
  /\ \E entry \in Entries, local \in BOOLEAN :
       \E todo \in {Detected(local)} \cup {{c} : c \in {d \in Clients : ~ (local /\ d \in HomeOnly)}} :
         /\ todo # {}
         /\ invocation' = [invocation EXCEPT ![i] = [at |-> "next", client |-> NoClient, todo |-> todo,
                                                     entry |-> entry]]
  /\ UNCHANGED <<config, tmpFile, present, document, raced, mixed>>

(* The next client of the loop, in a fixed order, or the end. *)
NextClient(i) ==
  /\ invocation[i].at = "next"
  /\ IF invocation[i].todo = {} THEN Leave(i, "ok")
     ELSE LET c == CHOOSE d \in invocation[i].todo : TRUE IN
            /\ invocation' = [invocation EXCEPT ![i].at = "read", ![i].client = c, ![i].todo = @ \ {c}]
            /\ document' = [document EXCEPT ![i] = Absent]
  /\ raced' = {r \in raced : r[1] # i}
  /\ UNCHANGED <<config, tmpFile, present, mixed>>

(* install_json_object, install_opencode, install_codex up to the write: a *)
(* file that does not parse, or holds no object of servers, is an error;   *)
(* an entry that is there already is left alone.  An error ends the loop   *)
(* and leaves the clients before it installed.                             *)
ReadConfig(i) ==
  LET c == invocation[i].client IN
  /\ invocation[i].at = "read"
  /\ \/ /\ ~ config[c].whole \/ ~ config[c].object
        /\ Leave(i, "err")
     \/ /\ config[c].whole /\ config[c].object
        /\ Step(i, IF config[c].monad = invocation[i].entry THEN "next" ELSE "write")
        /\ document' = [document EXCEPT ![i] = [config[c] EXCEPT !.exists = TRUE,
                                                                 !.monad = invocation[i].entry]]
  /\ UNCHANGED <<config, tmpFile, present, raced, mixed>>

\* Mutant: the file itself is truncated and written.
BeginWrite_InPlace(i) ==
  LET c == invocation[i].client IN
  /\ invocation[i].at = "write"
  /\ config' = [config EXCEPT ![c] = Torn]
  /\ tmpFile' = [tmpFile EXCEPT ![c] = document[i]]
  /\ Step(i, "rename")
  /\ UNCHANGED <<present, document, raced, mixed>>

(* write_text_atomic: the temporary file is truncated ... *)
BeginWrite(i) ==
  LET c == invocation[i].client IN
  /\ invocation[i].at = "write"
  /\ tmpFile' = [tmpFile EXCEPT ![c] = Torn]
  /\ Step(i, "fill")
  /\ mixed' = IF \E j \in Others(i) : invocation[j].client = c /\ invocation[j].at \in {"fill", "rename"}
              THEN mixed \cup {c} ELSE mixed
  /\ UNCHANGED <<config, present, document, raced>>

(* ... written ... *)
FillTmp(i) ==
  LET c == invocation[i].client IN
  /\ invocation[i].at = "fill"
  /\ \/ tmpFile[c].exists /\ tmpFile' = [tmpFile EXCEPT ![c] = document[i]] /\ UNCHANGED config
     \/ ~ tmpFile[c].exists /\ config' = [config EXCEPT ![c] = document[i]] /\ UNCHANGED tmpFile
  /\ Step(i, "rename")
  /\ UNCHANGED <<present, document, raced, mixed>>

(* ... and renamed; an error if another install has renamed it. *)
RenameTmp(i) ==
  LET c == invocation[i].client IN
  /\ invocation[i].at = "rename"
  /\ IF tmpFile[c].exists
     THEN /\ config' = [config EXCEPT ![c] = tmpFile[c]]
          /\ tmpFile' = [tmpFile EXCEPT ![c] = Absent]
          /\ raced' = raced \cup {<<j, c>> : j \in {k \in Others(i) : invocation[k].client = c}}
          /\ Step(i, "next") /\ UNCHANGED document
     ELSE Leave(i, "err") /\ UNCHANGED <<config, tmpFile, raced>>
  /\ UNCHANGED <<present, mixed>>

KillInstall(i) ==
  /\ invocation[i].at \notin {"off", "ok", "err"}
  /\ Leave(i, "err")
  /\ UNCHANGED <<config, tmpFile, present, raced, mixed>>

(* The client, or its user, enters or removes another server. *)
ClientWrites(c) ==
  /\ config[c].whole /\ config[c].object
  /\ \E f \in SUBSET Foreign : config' = [config EXCEPT ![c] = [@ EXCEPT !.exists = TRUE, !.foreign = f]]
  /\ config' # config
  /\ raced' = raced \cup {<<i, c>> : i \in {j \in Installs : invocation[j].client = c}}
  /\ UNCHANGED <<tmpFile, present, invocation, document, mixed>>

InstallNext ==
  \/ \E i \in Installs :
       \/ StartInstall(i) \/ NextClient(i) \/ ReadConfig(i)
       \/ BeginWrite(i) \/ FillTmp(i) \/ RenameTmp(i) \/ KillInstall(i)
  \/ \E c \in Clients : ClientWrites(c)

InstallSpec == InstallInit /\ [][InstallNext]_installVars
-----------------------------------------------------------------------------
InstallTypeOK ==
  /\ config \in [Clients -> Files] /\ tmpFile \in [Clients -> Files]
  /\ present \subseteq Clients
  /\ invocation \in [Installs -> [at : {"off", "next", "read", "write", "fill", "rename", "ok", "err"},
                                  client : Clients \cup {NoClient}, todo : SUBSET Clients,
                                  entry : Entries \cup {NoEntry}]]
  /\ document \in [Installs -> Files]
  /\ raced \subseteq Installs \X Clients /\ mixed \subseteq Clients

(* write_text_atomic, install_one: a configuration is whole at every       *)
(* moment, whatever is killed, unless two installs wrote its temporary     *)
(* file at a time; and an install that nobody raced changes nothing but    *)
(* monad's own entry.                                                      *)
InstallIsClean ==
  /\ \A c \in Clients : config[c].whole \/ c \in mixed
  /\ \A i \in Installs, c \in Clients :
       invocation[i].client = c /\ invocation[i].at = "rename" /\ <<i, c>> \notin raced /\ c \notin mixed
         => tmpFile[c].foreign = config[c].foreign
=============================================================================
