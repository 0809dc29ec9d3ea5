------------------------------ MODULE Identity ------------------------------
(***************************************************************************)
(* Who trusts whom, and what is left of it after a crash: the keys and     *)
(* certificates of host and clients (Keypair, CertStore), the host's list  *)
(* of known clients (KnownClients, clients.toml) and each client's list of *)
(* hosts (HostList, hosts.toml), with the pairings by PIN that fill them.  *)
(*                                                                         *)
(* A file is modelled by what reading it gives.  A key or certificate that *)
(* is absent or cut short cannot be parsed, and a list that is absent or   *)
(* cut inside an entry is a syntax error, which loads nothing.  Files are  *)
(* rewritten in place: a process that dies while it writes, or a full      *)
(* disk, leaves any beginning of the new contents.                         *)
(*                                                                         *)
(* The packets of a session are in module Session; here a session is only  *)
(* what it reads from and writes to the identities.                        *)
(***************************************************************************)
EXTENDS Naturals, Sequences

CONSTANTS
    Clients,    \* the client machines
    Host,       \* the host machine
    MaxHosts,   \* bound: entries of a client's list
    MaxFaults   \* bound: ends of the host, crashes, failed writes, connections broken while pairing

ASSUME HostAssumption == Host \notin Clients
ASSUME BoundAssumption == MaxHosts \in Nat /\ MaxFaults \in Nat

VARIABLES
    keyFile,    \* privkey.der of each machine, 0 if it cannot be read
    certFile,   \* cert.der of each machine
    listFile,   \* clients.toml of the host, hosts.toml of a client
    stage,      \* how far each process is
    key, cert,  \* Keypair and CertStore in memory
    list,       \* KnownClients::clients of the host, HostList::hosts of a client
    sess,       \* the session of each client's StreamWindow
    saving,     \* clients whose connection thread is in saveFile
    fresh,      \* keys and certificates made so far
    faults,     \* how many of those so far
    paired,     \* history: the pairs of certificates confirmed by a PIN
    cut         \* history: a save of clients.toml was cut short

files    == <<keyFile, certFile, listFile>>
memory   == <<key, cert, list>>
sessions == <<sess, saving>>
history  == <<paired, cut>>
vars     == <<files, stage, memory, sessions, fresh, faults, history>>

Machines == Clients \cup {Host}
Stages   == {"off", "hub", "key", "keyWrite", "cert", "certWrite", "ready"}

\* A certificate names its key; two certificates are never the same, since each has its date.
NoCert == [key |-> 0, serial |-> 0]
Certs  == [key : Nat, serial : Nat]

\* No StreamWindow; the others are {window opened, PIN wanted, PIN accepted, answer sent, streaming}.
NoSess == [at |-> "none", entry |-> 0, host |-> NoCert, pin |-> FALSE]

Occurs(x, s) == \E i \in DOMAIN s : s[i] = x

\* The window of c is closed and its process goes on without it.
Closed(c) == [sess EXCEPT ![c] = NoSess]

\* What a write that is cut short may leave of clients.toml: the first entries, since an
\* entry without its fingerprint is dropped by load_, or nothing (a syntax error).
CutClients(s) == {SubSeq(s, 1, n) : n \in 0..Len(s)}

\* Of hosts.toml: the last entry may also be left before its certificate, and is kept.
CutHosts(s) == CutClients(s) \cup {[SubSeq(s, 1, n) EXCEPT ![n] = NoCert] : n \in 1..Len(s)}

Fault == faults < MaxFaults /\ faults' = faults + 1
-----------------------------------------------------------------------------
Init ==
    /\ keyFile = [m \in Machines |-> 0]
    /\ certFile = [m \in Machines |-> NoCert]
    /\ listFile = [m \in Machines |-> <<>>]
    /\ stage = [m \in Machines |-> "off"]
    /\ key = [m \in Machines |-> 0]
    /\ cert = [m \in Machines |-> NoCert]
    /\ list = [m \in Machines |-> <<>>]
    /\ sess = [c \in Clients |-> NoSess]
    /\ saving = {}
    /\ fresh = 0 /\ faults = 0
    /\ paired = {} /\ cut = FALSE
-----------------------------------------------------------------------------
(* Key and certificate: the host's when NetworkServer is made, a client's  *)
(* with every StreamClient.                                                *)

\* loadOrGenerate: the key is read, or made and then written.
LoadKey(m) ==
    /\ stage[m] = "key"
    /\ \/ /\ keyFile[m] # 0
          /\ key' = [key EXCEPT ![m] = keyFile[m]]
          /\ stage' = [stage EXCEPT ![m] = "cert"]
          /\ UNCHANGED fresh
       \/ /\ keyFile[m] = 0
          /\ fresh' = fresh + 1
          /\ key' = [key EXCEPT ![m] = fresh + 1]
          /\ stage' = [stage EXCEPT ![m] = "keyWrite"]
    /\ UNCHANGED <<files, cert, list, sessions, faults, history>>

\* writeByteBuffer; an error is logged and the process goes on.
WriteKey(m) ==
    /\ stage[m] = "keyWrite"
    /\ \/ keyFile' = [keyFile EXCEPT ![m] = key[m]] /\ UNCHANGED faults
       \/ UNCHANGED keyFile /\ Fault
    /\ stage' = [stage EXCEPT ![m] = "cert"]
    /\ UNCHANGED <<certFile, listFile, memory, sessions, fresh, history>>

\* The process has its identity; StreamServer reads clients.toml next.
Identified(m) ==
    /\ stage' = [stage EXCEPT ![m] = "ready"]
    /\ list' = IF m = Host THEN [list EXCEPT ![m] = listFile[m]] ELSE list

\* Faulty variant: a certificate that does not match the key is kept.
LoadCertUnchecked(m) ==
    /\ stage[m] = "cert"
    /\ \/ /\ certFile[m] # NoCert
          /\ cert' = [cert EXCEPT ![m] = certFile[m]]
          /\ Identified(m)
          /\ UNCHANGED fresh
       \/ /\ certFile[m] = NoCert
          /\ fresh' = fresh + 1
          /\ cert' = [cert EXCEPT ![m] = [key |-> key[m], serial |-> fresh + 1]]
          /\ stage' = [stage EXCEPT ![m] = "certWrite"]
          /\ UNCHANGED list
    /\ UNCHANGED <<files, key, sessions, faults, history>>

\* loadCert: a certificate that cannot be read or is of another key is replaced.
LoadCert(m) ==
    /\ stage[m] = "cert"
    /\ \/ /\ certFile[m] # NoCert /\ certFile[m].key = key[m]
          /\ cert' = [cert EXCEPT ![m] = certFile[m]]
          /\ Identified(m)
          /\ UNCHANGED fresh
       \/ /\ certFile[m] = NoCert \/ certFile[m].key # key[m]
          /\ fresh' = fresh + 1
          /\ cert' = [cert EXCEPT ![m] = [key |-> key[m], serial |-> fresh + 1]]
          /\ stage' = [stage EXCEPT ![m] = "certWrite"]
          /\ UNCHANGED list
    /\ UNCHANGED <<files, key, sessions, faults, history>>

WriteCert(m) ==
    /\ stage[m] = "certWrite"
    /\ \/ certFile' = [certFile EXCEPT ![m] = cert[m]] /\ UNCHANGED faults
       \/ certFile' = [certFile EXCEPT ![m] = NoCert] /\ Fault
    /\ Identified(m)
    /\ UNCHANGED <<keyFile, listFile, key, cert, sessions, fresh, history>>
-----------------------------------------------------------------------------
(* The processes.                                                          *)

StartHost ==
    /\ stage[Host] = "off"
    /\ stage' = [stage EXCEPT ![Host] = "key"]
    /\ UNCHANGED <<files, memory, sessions, fresh, faults, history>>

\* The windows of the clients whose session needs the host close; an answer on its way may arrive.
HostGone ==
    LET left == {c \in Clients : sess[c].at \in {"pin", "save", "open"}}
    IN  /\ sess' = [c \in Clients |-> IF c \in left THEN NoSess ELSE sess[c]]
        /\ stage' = [m \in Machines |-> IF m = Host THEN "off" ELSE IF m \in left THEN "hub" ELSE stage[m]]
        /\ list' = [list EXCEPT ![Host] = <<>>]
        /\ saving' = {}

\* main ends after an hour: stop() waits for the connection threads, and nothing is saved.
StopHost ==
    /\ stage[Host] = "ready" /\ saving = {}
    /\ Fault
    /\ HostGone
    /\ UNCHANGED <<files, key, cert, fresh, history>>

\* The host dies.  A file that was being written is left as it was, or cut; the key's
\* could not be read before.
CrashHost ==
    /\ stage[Host] # "off"
    /\ Fault
    /\ HostGone
    /\ \/ UNCHANGED certFile
       \/ stage[Host] = "certWrite" /\ certFile' = [certFile EXCEPT ![Host] = NoCert]
    /\ \/ UNCHANGED listFile
       \/ saving # {} /\ \E f \in CutClients(list[Host]) : listFile' = [listFile EXCEPT ![Host] = f]
    /\ cut' = (cut \/ saving # {})
    /\ UNCHANGED <<keyFile, key, cert, fresh, paired>>

\* HubWindow reads hosts.toml.
OpenHub(c) ==
    /\ stage[c] = "off"
    /\ stage' = [stage EXCEPT ![c] = "hub"]
    /\ list' = [list EXCEPT ![c] = listFile[c]]
    /\ UNCHANGED <<files, key, cert, sessions, fresh, faults, history>>

\* on_btnAddHost_clicked.
AddHost(c) ==
    /\ stage[c] = "hub" /\ Len(list[c]) < MaxHosts
    /\ list' = [list EXCEPT ![c] = Append(@, NoCert)]
    /\ UNCHANGED <<files, stage, key, cert, sessions, fresh, faults, history>>

\* ~HubWindow writes hosts.toml and ignores errors.
CloseHub(c) ==
    /\ stage[c] = "hub"
    /\ \/ listFile' = [listFile EXCEPT ![c] = list[c]] /\ UNCHANGED faults
       \/ Fault /\ \E f \in CutHosts(list[c]) : listFile' = [listFile EXCEPT ![c] = f]
    /\ stage' = [stage EXCEPT ![c] = "off"]
    /\ UNCHANGED <<keyFile, certFile, memory, sessions, fresh, history>>

\* An assertion or a crash ends the client without ~HubWindow.
CrashClient(c) ==
    /\ stage[c] # "off"
    /\ Fault
    /\ stage' = [stage EXCEPT ![c] = "off"]
    /\ sess' = Closed(c)
    /\ \/ UNCHANGED certFile
       \/ stage[c] = "certWrite" /\ certFile' = [certFile EXCEPT ![c] = NoCert]
    /\ UNCHANGED <<keyFile, listFile, memory, saving, fresh, history>>
-----------------------------------------------------------------------------
(* Sessions.                                                               *)

\* connectToEntry: a StreamWindow with a StreamClient of its own, which reads key and certificate.
OpenWindow(c, i) ==
    /\ stage[c] = "hub"
    /\ sess' = [sess EXCEPT ![c] = [at |-> "window", entry |-> i, host |-> NoCert, pin |-> FALSE]]
    /\ stage' = [stage EXCEPT ![c] = "key"]
    /\ UNCHANGED <<files, memory, saving, fresh, faults, history>>

\* Faulty variant: a client that keeps no certificate for the host takes any.
RecognisedFirst(c) == /\ Occurs(cert[c], list[Host])
                      /\ list[c][sess[c].entry] \in {NoCert, cert[Host]}

\* verifyCert at both ends: the host looks for the client's certificate in its list, the
\* client compares the host's with the one it keeps.
Recognised(c) == Occurs(cert[c], list[Host]) /\ list[c][sess[c].entry] = cert[Host]

\* Faulty variant: a client that the host knows is not let in by a PIN.
ConnectRefuses(c) ==
    LET at == IF Recognised(c) THEN "open" ELSE IF Occurs(cert[c], list[Host]) THEN "none" ELSE "pin"
    IN  /\ sess[c].at = "window" /\ stage[c] = "ready" /\ stage[Host] = "ready"
        /\ sess' = [sess EXCEPT ![c].at = at, ![c].host = cert[Host]]
        /\ stage' = [stage EXCEPT ![c] = IF at = "none" THEN "hub" ELSE @]
        /\ UNCHANGED <<files, memory, saving, fresh, faults, history>>

\* doIntro_: a session that either end does not recognise needs a PIN.
Connect(c) ==
    /\ sess[c].at = "window" /\ stage[c] = "ready" /\ stage[Host] = "ready"
    /\ sess' = [sess EXCEPT ![c].at = IF Recognised(c) THEN "open" ELSE "pin", ![c].host = cert[Host]]
    /\ UNCHANGED <<files, stage, memory, saving, fresh, faults, history>>

\* The PIN is right: the client's certificate is added, and saveFile begins.
EnterPin(c) ==
    /\ sess[c].at = "pin" /\ c \notin saving
    /\ list' = [list EXCEPT ![Host] = Append(@, cert[c])]
    /\ saving' = saving \cup {c}
    /\ paired' = paired \cup {<<sess[c].host, cert[c]>>}
    /\ sess' = [sess EXCEPT ![c].at = "save", ![c].pin = TRUE]
    /\ UNCHANGED <<files, stage, key, cert, fresh, faults, cut>>

\* Faulty variant: the list is saved as it was before the client was added.
SavedBefore(c) ==
    /\ c \in saving
    /\ \/ listFile' = [listFile EXCEPT ![Host] = SubSeq(list[Host], 1, Len(list[Host]) - 1)]
          /\ UNCHANGED <<cut, faults>>
       \/ Fault /\ cut' = TRUE
          /\ \E f \in CutClients(list[Host]) \cup {listFile[Host]} : listFile' = [listFile EXCEPT ![Host] = f]
    /\ saving' = saving \ {c}
    /\ sess' = IF sess[c].at = "save" THEN [sess EXCEPT ![c].at = "answer"] ELSE sess
    /\ UNCHANGED <<keyFile, certFile, stage, memory, fresh, paired>>

\* saveFile returns, and the answer is sent whatever it returned.
Saved(c) ==
    /\ c \in saving
    /\ \/ listFile' = [listFile EXCEPT ![Host] = list[Host]] /\ UNCHANGED <<cut, faults>>
       \/ Fault /\ cut' = TRUE
          /\ \E f \in CutClients(list[Host]) \cup {listFile[Host]} : listFile' = [listFile EXCEPT ![Host] = f]
    /\ saving' = saving \ {c}
    /\ sess' = IF sess[c].at = "save" THEN [sess EXCEPT ![c].at = "answer"] ELSE sess
    /\ UNCHANGED <<keyFile, certFile, stage, memory, fresh, paired>>

\* doAuth_ has its answer and keeps the host's certificate, in memory.
Authenticated(c) ==
    /\ sess[c].at = "answer"
    /\ list' = [list EXCEPT ![c][sess[c].entry] = sess[c].host]
    /\ sess' = [sess EXCEPT ![c].at = "open"]
    /\ UNCHANGED <<files, stage, key, cert, saving, fresh, faults, history>>

\* The window closes: the host cannot be reached, the PIN is wrong, the session ends; or,
\* a fault, the connection breaks between the PIN and its answer.
CloseWindow(c) ==
    /\ \/ sess[c].at = "window" /\ stage[c] = "ready" /\ stage[Host] # "ready" /\ UNCHANGED faults
       \/ sess[c].at \in {"pin", "open"} /\ UNCHANGED faults
       \/ sess[c].at \in {"save", "answer"} /\ Fault
    /\ sess' = Closed(c)
    /\ stage' = [stage EXCEPT ![c] = "hub"]
    /\ UNCHANGED <<files, memory, saving, fresh, history>>
-----------------------------------------------------------------------------
Identify(m) == LoadKey(m) \/ WriteKey(m) \/ LoadCert(m) \/ WriteCert(m)

Window(c) == OpenHub(c) \/ AddHost(c) \/ CloseHub(c) \/ \E i \in DOMAIN list[c] : OpenWindow(c, i)

Session(c) == Connect(c) \/ EnterPin(c) \/ Saved(c) \/ Authenticated(c) \/ CloseWindow(c)

Next ==
    \/ \E m \in Machines : Identify(m)
    \/ StartHost \/ StopHost \/ CrashHost
    \/ \E c \in Clients : Window(c) \/ Session(c) \/ CrashClient(c)

Spec == Init /\ [][Next]_vars

\* Processes that run get on; the host is started again when it is off, and somebody goes
\* on trying: opens the hub, adds the host, connects and types the PIN, however often an
\* attempt is given up in between.
Fairness ==
    /\ \A m \in Machines : WF_vars(Identify(m))
    /\ WF_vars(StartHost)
    /\ \A c \in Clients :
           /\ WF_vars(OpenHub(c)) /\ WF_vars(CloseWindow(c)) /\ WF_vars(Saved(c))
           /\ SF_vars(AddHost(c)) /\ SF_vars(\E i \in DOMAIN list[c] : OpenWindow(c, i))
           /\ SF_vars(Connect(c)) /\ SF_vars(EnterPin(c)) /\ WF_vars(Authenticated(c))

FairSpec == Spec /\ Fairness
-----------------------------------------------------------------------------
(* Properties.                                                             *)

\* The types, and the least that every file, list and session is made of.
TypeOK ==
    /\ keyFile \in [Machines -> Nat] /\ certFile \in [Machines -> Certs]
    /\ listFile \in [Machines -> Seq(Certs)]
    /\ stage \in [Machines -> Stages]
    /\ key \in [Machines -> Nat] /\ cert \in [Machines -> Certs] /\ list \in [Machines -> Seq(Certs)]
    /\ sess \in [Clients -> [at : {"none", "window", "pin", "save", "answer", "open"},
                             entry : Nat, host : Certs, pin : BOOLEAN]]
    /\ saving \subseteq Clients
    /\ fresh \in Nat /\ faults \in 0..MaxFaults
    /\ paired \subseteq Certs \X Certs /\ cut \in BOOLEAN

\* A process that goes into a TLS handshake has a certificate of its own key, after any
\* crash between the writing of the two files.
CertMatchesKey == \A m \in Machines : stage[m] = "ready" => cert[m].key = key[m]

\* A session is opened only between two certificates that a PIN has confirmed, in this
\* session or an earlier one, whatever files were lost, cut short or regenerated since.
OpenMeansPaired ==
    \A c \in Clients : sess[c].at = "open" => <<sess[c].host, cert[c]>> \in paired

\* A pairing outlives the host's restarts and crashes unless one hit a save: every client
\* that a PIN has confirmed is in the host's list, or in clients.toml while it is not read.
PairingsKept ==
    ~cut => \A p \in paired : Occurs(p[2], IF stage[Host] = "ready" THEN list[Host] ELSE listFile[Host])

\* Nobody types PINs for ever: every client again and again gets a session without one.
SettlesWithoutPin == \A c \in Clients : []<>(sess[c].at = "open" /\ ~sess[c].pin)
=============================================================================
