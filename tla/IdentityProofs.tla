--------------------------- MODULE IdentityProofs ---------------------------
(***************************************************************************)
(* Proofs about module Identity, for every set of clients, every length of *)
(* the hosts' lists and any number of faults.                              *)
(***************************************************************************)
EXTENDS Identity, TLAPS

\* A machine has x in its list, in memory or on disk.
Listed(x, m) == Occurs(x, list[m]) \/ Occurs(x, listFile[m])

\* Only the key in memory is on disk, and only the certificate in memory is of that key:
\* a machine never returns to an identity that it has replaced.
LatestOnly ==
    \A m \in Machines :
        /\ keyFile[m] \in {0, key[m]}
        /\ certFile[m] \in {NoCert, cert[m]} \/ certFile[m].key # key[m]
        /\ stage[m] \in {"certWrite", "ready"} => cert[m].key = key[m] /\ cert[m] # NoCert

\* What was made so far bounds what is in use.
Bounded ==
    /\ \A m \in Machines : key[m] <= fresh /\ certFile[m].key <= fresh /\ cert[m].serial <= fresh
    /\ \A m \in Machines, x \in Certs : Listed(x, m) => x.serial <= fresh
    /\ \A c \in Clients : sess[c].host.serial <= fresh

\* No two machines have the same certificate.
Distinct == \A m, n \in Machines : m # n /\ cert[m] = cert[n] => cert[m] = NoCert

\* Sessions agree with the processes and with the PINs typed.
SessOK ==
    /\ \A c \in Clients :
        /\ sess[c].at # "none" => stage[c] \notin {"off", "hub"} /\ sess[c].entry \in 1..Len(list[c])
        /\ sess[c].at \in {"pin", "save", "answer", "open"} => stage[c] = "ready" /\ sess[c].host # NoCert
        /\ sess[c].at \in {"pin", "save"} => stage[Host] = "ready" /\ sess[c].host = cert[Host]
        /\ sess[c].at \in {"save", "answer", "open"} => <<sess[c].host, cert[c]>> \in paired
    /\ saving # {} => stage[Host] = "ready"

\* If host and client have each other's present certificate, a PIN has confirmed the two.
Joint ==
    \A c \in Clients :
        Listed(cert[c], Host) /\ Listed(cert[Host], c) /\ cert[c] # NoCert /\ cert[Host] # NoCert
            => <<cert[Host], cert[c]>> \in paired

\* While no save is going on, or was cut short, clients.toml is the list in memory.
FileAgrees == ~cut /\ saving = {} /\ stage[Host] = "ready" => list[Host] = listFile[Host]

\* The inductive invariant.
IdInv == TypeOK /\ LatestOnly /\ Bounded /\ Distinct /\ SessOK /\ Joint /\ FileAgrees /\ PairingsKept

\* Appending adds the new element only.
LEMMA OccursAppend ==
    ASSUME NEW s \in Seq(Certs), NEW e \in Certs
    PROVE  /\ Append(s, e) \in Seq(Certs) /\ Len(Append(s, e)) = Len(s) + 1
           /\ Occurs(e, Append(s, e))
           /\ \A x : Occurs(x, s) => Occurs(x, Append(s, e))
           /\ \A x : Occurs(x, Append(s, e)) => Occurs(x, s) \/ x = e
BY DEF Occurs

\* The first n elements.
LEMMA SubSeqFacts ==
    ASSUME NEW s \in Seq(Certs), NEW n \in 0..Len(s), NEW f, f = SubSeq(s, 1, n)
    PROVE  f \in Seq(Certs) /\ Len(f) = n /\ \A i \in 1..n : f[i] = s[i]
OBVIOUS

\* The beginning of a list has nothing that is not in the list.
LEMMA OccursCut ==
    ASSUME NEW s \in Seq(Certs), NEW f \in CutClients(s)
    PROVE  f \in Seq(Certs) /\ \A x : Occurs(x, f) => Occurs(x, s)
<1>1. PICK n \in 0..Len(s) : f = SubSeq(s, 1, n)
  BY DEF CutClients
<1>2. f \in Seq(Certs) /\ Len(f) = n /\ \A i \in 1..n : f[i] = s[i]
  BY <1>1, SubSeqFacts
<1> QED
  BY <1>2 DEF Occurs

\* Nor has a list of hosts that is cut, but for an entry without certificate.
LEMMA OccursCutHosts ==
    ASSUME NEW s \in Seq(Certs), NEW f \in CutHosts(s)
    PROVE  f \in Seq(Certs) /\ \A x : Occurs(x, f) => Occurs(x, s) \/ x = NoCert
<1>1. CASE f \in CutClients(s)
  BY <1>1, OccursCut
<1>2. CASE f \notin CutClients(s)
  <2>1. PICK n \in 1..Len(s) : f = [SubSeq(s, 1, n) EXCEPT ![n] = NoCert]
    BY <1>2 DEF CutHosts
  <2>2. PICK t : t = SubSeq(s, 1, n)
    OBVIOUS
  <2>3. t \in Seq(Certs) /\ Len(t) = n /\ \A i \in 1..n : t[i] = s[i]
    BY <2>2, SubSeqFacts
  <2>4. NoCert \in Certs
    BY DEF NoCert, Certs
  <2>5. f = [t EXCEPT ![n] = NoCert]
    BY <2>1, <2>2
  <2>6. f \in Seq(Certs) /\ Len(f) = n /\ \A i \in 1..n : f[i] = t[i] \/ f[i] = NoCert
    BY <2>3, <2>4, <2>5
  <2> QED
    BY <2>3, <2>6 DEF Occurs
<1> QED
  BY <1>1, <1>2

\* Replacing an element adds the new one only.
LEMMA OccursReplace ==
    ASSUME NEW s \in Seq(Certs), NEW e \in Certs, NEW i \in 1..Len(s)
    PROVE  /\ [s EXCEPT ![i] = e] \in Seq(Certs) /\ Len([s EXCEPT ![i] = e]) = Len(s)
           /\ \A x : Occurs(x, [s EXCEPT ![i] = e]) => Occurs(x, s) \/ x = e
BY DEF Occurs

\* The steps of one machine or client, in one list.
Step ==
    \/ \E m \in Machines : LoadKey(m) \/ WriteKey(m) \/ LoadCert(m) \/ WriteCert(m)
    \/ StartHost \/ StopHost \/ CrashHost
    \/ \E c \in Clients : \/ OpenHub(c) \/ AddHost(c) \/ CloseHub(c) \/ CrashClient(c)
                          \/ \E i \in DOMAIN list[c] : OpenWindow(c, i)
                          \/ Connect(c) \/ EnterPin(c) \/ Saved(c) \/ Authenticated(c) \/ CloseWindow(c)

\* Next is made of these steps.
LEMMA NextIsStep == Next => Step
BY DEF Next, Step, Identify, Window, Session

\* What a step does to the certificates: nothing, or one that is of the key and new.
LEMMA CertStep ==
    ASSUME TypeOK, LatestOnly, Step, NEW m \in Machines
    PROVE  \/ cert'[m] = cert[m] /\ key'[m] = key[m]
           \/ stage[m] = "key" /\ keyFile[m] = 0 /\ cert'[m] = cert[m] /\ key'[m] = fresh + 1 /\ fresh' = fresh + 1
           \/ stage[m] = "cert" /\ key'[m] = key[m] /\ fresh' = fresh + 1
              /\ cert'[m] = [key |-> key[m], serial |-> fresh + 1]
              /\ (certFile[m] = NoCert \/ certFile[m].key # key[m])
<1> USE DEF TypeOK, LatestOnly, files, memory, sessions, history
<1>1. ASSUME NEW n \in Machines, LoadKey(n)
      PROVE  \/ cert'[m] = cert[m] /\ key'[m] = key[m]
             \/ stage[m] = "key" /\ keyFile[m] = 0 /\ cert'[m] = cert[m] /\ key'[m] = fresh + 1 /\ fresh' = fresh + 1
  BY <1>1 DEF LoadKey
<1>2. ASSUME NEW n \in Machines, LoadCert(n)
      PROVE  \/ cert'[m] = cert[m] /\ key'[m] = key[m]
             \/ stage[m] = "cert" /\ key'[m] = key[m] /\ fresh' = fresh + 1
                /\ cert'[m] = [key |-> key[m], serial |-> fresh + 1]
                /\ (certFile[m] = NoCert \/ certFile[m].key # key[m])
  BY <1>2 DEF LoadCert
<1>3. CASE UNCHANGED <<cert, key>>
  BY <1>3
<1>4. ASSUME NEW n \in Machines, WriteKey(n) \/ WriteCert(n) PROVE UNCHANGED <<cert, key>>
  BY <1>4 DEF WriteKey, WriteCert
<1>5. StartHost \/ StopHost \/ CrashHost => UNCHANGED <<cert, key>>
  BY DEF StartHost, StopHost, CrashHost
<1>6. ASSUME NEW c \in Clients,
             \/ OpenHub(c) \/ AddHost(c) \/ CloseHub(c) \/ CrashClient(c)
             \/ \E i \in DOMAIN list[c] : OpenWindow(c, i)
             \/ Connect(c) \/ EnterPin(c) \/ Saved(c) \/ Authenticated(c) \/ CloseWindow(c)
      PROVE  UNCHANGED <<cert, key>>
  BY <1>6 DEF OpenHub, AddHost, CloseHub, CrashClient, OpenWindow, Connect, EnterPin, Saved, Authenticated, CloseWindow
<1> QED
  BY <1>1, <1>2, <1>3, <1>4, <1>5, <1>6 DEF Step

\* The counter goes up by one at most.
LEMMA FreshStep ==
    ASSUME Step
    PROVE  fresh' \in {fresh, fresh + 1}
<1>1. ASSUME NEW m \in Machines, LoadKey(m) \/ WriteKey(m) \/ LoadCert(m) \/ WriteCert(m) PROVE fresh' \in {fresh, fresh + 1}
  BY <1>1 DEF LoadKey, WriteKey, LoadCert, WriteCert
<1>2. StartHost \/ StopHost \/ CrashHost => UNCHANGED fresh
  BY DEF StartHost, StopHost, CrashHost
<1>3. ASSUME NEW c \in Clients,
             \/ OpenHub(c) \/ AddHost(c) \/ CloseHub(c) \/ CrashClient(c)
             \/ \E i \in DOMAIN list[c] : OpenWindow(c, i)
             \/ Connect(c) \/ EnterPin(c) \/ Saved(c) \/ Authenticated(c) \/ CloseWindow(c)
      PROVE  UNCHANGED fresh
  BY <1>3 DEF OpenHub, AddHost, CloseHub, CrashClient, OpenWindow, Connect, EnterPin, Saved, Authenticated, CloseWindow
<1> QED
  BY <1>1, <1>2, <1>3 DEF Step

\* The types of what is no flag.
DataOK ==
    /\ keyFile \in [Machines -> Nat] /\ certFile \in [Machines -> Certs]
    /\ listFile \in [Machines -> Seq(Certs)]
    /\ stage \in [Machines -> Stages]
    /\ key \in [Machines -> Nat] /\ cert \in [Machines -> Certs] /\ list \in [Machines -> Seq(Certs)]
    /\ saving \subseteq Clients
    /\ fresh \in Nat /\ faults \in 0..MaxFaults
    /\ paired \subseteq Certs \X Certs

\* What a fault does to its counter.
LEMMA FaultStep == faults \in 0..MaxFaults /\ Fault => faults' \in 0..MaxFaults
BY BoundAssumption DEF Fault

\* Files and memory keep their types.
LEMMA DataStep ==
    ASSUME TypeOK, SessOK, Step
    PROVE  DataOK'
<1> USE DEF files, memory, sessions, history, Stages
<1>1. DataOK /\ Host \in Machines /\ Clients \subseteq Machines /\ NoCert \in Certs /\ <<>> \in Seq(Certs)
  BY DEF TypeOK, DataOK, Machines, NoCert, Certs
<1>2. sess \in [Clients -> [at : {"none", "window", "pin", "save", "answer", "open"},
                            entry : Nat, host : Certs, pin : BOOLEAN]]
  BY DEF TypeOK
<1>3. ASSUME NEW m \in Machines, LoadKey(m) \/ WriteKey(m) PROVE DataOK'
  <2>1. CASE LoadKey(m)
    <3>1. fresh + 1 \in Nat
      BY <1>1 DEF DataOK
    <3>2. key' \in [Machines -> Nat] /\ fresh' \in Nat /\ stage' \in [Machines -> Stages]
      <4>1. key' = [key EXCEPT ![m] = keyFile[m]] \/ key' = [key EXCEPT ![m] = fresh + 1]
        BY <2>1 DEF LoadKey
      <4>2. fresh' = fresh \/ fresh' = fresh + 1
        BY <2>1 DEF LoadKey
      <4>3. stage' = [stage EXCEPT ![m] = "cert"] \/ stage' = [stage EXCEPT ![m] = "keyWrite"]
        BY <2>1 DEF LoadKey
      <4> QED
        BY <1>1, <3>1, <4>1, <4>2, <4>3 DEF DataOK
    <3> QED
      BY <1>1, <2>1, <3>2 DEF DataOK, LoadKey
  <2>2. CASE WriteKey(m)
    <3>1. keyFile' \in [Machines -> Nat] /\ stage' \in [Machines -> Stages] /\ faults' \in 0..MaxFaults
      BY <1>1, <2>2, FaultStep DEF DataOK, WriteKey
    <3> QED
      BY <1>1, <2>2, <3>1 DEF DataOK, WriteKey
  <2> QED
    BY <1>3, <2>1, <2>2
<1>4. ASSUME NEW m \in Machines, LoadCert(m) PROVE DataOK'
  <2>1. list' \in [Machines -> Seq(Certs)]
    BY <1>1, <1>4 DEF DataOK, LoadCert, Identified
  <2>2. stage' \in [Machines -> Stages]
    BY <1>1, <1>4 DEF DataOK, LoadCert, Identified
  <2>3. cert' \in [Machines -> Certs] /\ fresh' \in Nat
    <3>1. [key |-> key[m], serial |-> fresh + 1] \in Certs
      BY <1>1 DEF DataOK, Certs
    <3>2. cert' = [cert EXCEPT ![m] = certFile[m]] \/ cert' = [cert EXCEPT ![m] = [key |-> key[m], serial |-> fresh + 1]]
      BY <1>4 DEF LoadCert
    <3>3. fresh' = fresh \/ fresh' = fresh + 1
      BY <1>4 DEF LoadCert
    <3>4. cert' \in [Machines -> Certs]
      BY <1>1, <3>1, <3>2 DEF DataOK
    <3> QED
      BY <1>1, <3>3, <3>4 DEF DataOK
  <2> QED
    BY <1>1, <1>4, <2>1, <2>2, <2>3 DEF DataOK, LoadCert
<1>5. ASSUME NEW m \in Machines, WriteCert(m) PROVE DataOK'
  <2>1. list' \in [Machines -> Seq(Certs)] /\ stage' \in [Machines -> Stages]
    BY <1>1, <1>5 DEF DataOK, WriteCert, Identified
  <2>2. certFile' \in [Machines -> Certs] /\ faults' \in 0..MaxFaults
    BY <1>1, <1>5, FaultStep DEF DataOK, WriteCert
  <2> QED
    BY <1>1, <1>5, <2>1, <2>2 DEF DataOK, WriteCert
<1>6. CASE StartHost \/ StopHost
  <2>1. CASE StartHost
    BY <1>1, <2>1 DEF DataOK, StartHost
  <2>2. CASE StopHost
    <3>1. stage' \in [Machines -> Stages] /\ list' \in [Machines -> Seq(Certs)] /\ saving' \subseteq Clients
      BY <1>1, <2>2 DEF DataOK, StopHost, HostGone
    <3>2. faults' \in 0..MaxFaults
      BY <1>1, <2>2, FaultStep DEF DataOK, StopHost
    <3>3. UNCHANGED <<keyFile, certFile, listFile, key, cert, fresh, paired>>
      BY <2>2 DEF StopHost
    <3> QED
      BY <1>1, <3>1, <3>2, <3>3 DEF DataOK
  <2> QED
    BY <1>6, <2>1, <2>2
<1>7. CASE CrashHost
  <2>1. listFile' \in [Machines -> Seq(Certs)]
    <3>1. list[Host] \in Seq(Certs) /\ listFile \in [Machines -> Seq(Certs)]
      BY <1>1 DEF DataOK
    <3>2. ASSUME NEW f \in CutClients(list[Host]), listFile' = [listFile EXCEPT ![Host] = f]
          PROVE  listFile' \in [Machines -> Seq(Certs)]
      <4>1. f \in Seq(Certs)
        BY <3>1, OccursCut
      <4> QED
        BY <1>1, <3>1, <3>2, <4>1
    <3>3. \/ listFile' = listFile
          \/ \E f \in CutClients(list[Host]) : listFile' = [listFile EXCEPT ![Host] = f]
      BY <1>7 DEF CrashHost
    <3> QED
      BY <3>1, <3>2, <3>3
  <2>2. certFile' \in [Machines -> Certs] /\ list' \in [Machines -> Seq(Certs)]
    BY <1>1, <1>7 DEF DataOK, CrashHost, HostGone
  <2>3. stage' \in [Machines -> Stages] /\ faults' \in 0..MaxFaults /\ saving' \subseteq Clients
    BY <1>1, <1>7, FaultStep DEF DataOK, CrashHost, HostGone
  <2>4. UNCHANGED <<keyFile, key, cert, fresh, paired>>
    BY <1>7 DEF CrashHost
  <2> QED
    BY <1>1, <2>1, <2>2, <2>3, <2>4 DEF DataOK
<1>8. ASSUME NEW c \in Clients, OpenHub(c) \/ AddHost(c) PROVE DataOK'
  <2>1. list' \in [Machines -> Seq(Certs)]
    <3>1. Append(list[c], NoCert) \in Seq(Certs)
      BY <1>1, OccursAppend DEF DataOK
    <3> QED
      BY <1>1, <1>8, <3>1 DEF DataOK, OpenHub, AddHost
  <2> QED
    BY <1>1, <1>8, <2>1 DEF DataOK, OpenHub, AddHost
<1>9. ASSUME NEW c \in Clients, CloseHub(c) PROVE DataOK'
  <2>1. listFile' \in [Machines -> Seq(Certs)]
    BY <1>1, <1>9, OccursCutHosts DEF DataOK, CloseHub
  <2> QED
    BY <1>1, <1>9, <2>1, FaultStep DEF DataOK, CloseHub
<1>10. ASSUME NEW c \in Clients, CrashClient(c) PROVE DataOK'
  BY <1>1, <1>10, FaultStep DEF DataOK, CrashClient
<1>11. ASSUME NEW c \in Clients, NEW i \in DOMAIN list[c], OpenWindow(c, i) PROVE DataOK'
  BY <1>1, <1>11 DEF DataOK, OpenWindow
<1>12. ASSUME NEW c \in Clients, Connect(c) \/ CloseWindow(c) PROVE DataOK'
  <2>1. CASE Connect(c)
    BY <1>1, <2>1 DEF DataOK, Connect
  <2>2. CASE CloseWindow(c)
    <3>1. faults' \in 0..MaxFaults
      BY <1>1, <2>2, FaultStep DEF DataOK, CloseWindow
    <3> QED
      BY <1>1, <2>2, <3>1 DEF DataOK, CloseWindow
  <2> QED
    BY <1>12, <2>1, <2>2
<1>13. ASSUME NEW c \in Clients, EnterPin(c) PROVE DataOK'
  <2>1. cert[c] \in Certs /\ sess[c].host \in Certs /\ list[Host] \in Seq(Certs)
    BY <1>1, <1>2 DEF DataOK
  <2>2. list' \in [Machines -> Seq(Certs)]
    BY <1>1, <1>13, <2>1 DEF DataOK, EnterPin
  <2>3. paired' \subseteq Certs \X Certs /\ saving' \subseteq Clients
    BY <1>1, <1>13, <2>1 DEF DataOK, EnterPin
  <2> QED
    BY <1>1, <1>13, <2>2, <2>3 DEF DataOK, EnterPin
<1>14. ASSUME NEW c \in Clients, Saved(c) PROVE DataOK'
  <2>1. listFile' \in [Machines -> Seq(Certs)]
    <3>1. ASSUME NEW f \in CutClients(list[Host]) \cup {listFile[Host]} PROVE f \in Seq(Certs)
      BY <1>1, OccursCut DEF DataOK
    <3>2. PICK f \in CutClients(list[Host]) \cup {listFile[Host], list[Host]} : listFile' = [listFile EXCEPT ![Host] = f]
      BY <1>14 DEF Saved
    <3>3. f \in Seq(Certs)
      BY <1>1, <3>1 DEF DataOK
    <3> QED
      BY <1>1, <3>2, <3>3 DEF DataOK
  <2> QED
    BY <1>1, <1>14, <2>1, FaultStep DEF DataOK, Saved
<1>15. ASSUME NEW c \in Clients, Authenticated(c) PROVE DataOK'
  <2>1. sess[c].entry \in 1..Len(list[c]) /\ sess[c].host \in Certs
    BY <1>2, <1>15 DEF SessOK, Authenticated
  <2>2. list' = [list EXCEPT ![c] = [list[c] EXCEPT ![sess[c].entry] = sess[c].host]]
    BY <1>15 DEF Authenticated
  <2>3. [list[c] EXCEPT ![sess[c].entry] = sess[c].host] \in Seq(Certs)
    BY <1>1, <2>1, OccursReplace DEF DataOK
  <2> QED
    BY <1>1, <1>15, <2>2, <2>3 DEF DataOK, Authenticated
<1> QED
  BY <1>3, <1>4, <1>5, <1>6, <1>7, <1>8, <1>9, <1>10, <1>11, <1>12, <1>13, <1>14, <1>15 DEF Step

\* The states of a session.
Sess == [at : {"none", "window", "pin", "save", "answer", "open"}, entry : Nat, host : Certs, pin : BOOLEAN]

\* What a step does to a session, and when.
SessMove(c) ==
    \/ sess'[c] = sess[c]
    \/ sess'[c] = NoSess
    \/ \E i \in DOMAIN list[c] : OpenWindow(c, i) /\ sess'[c] = [at |-> "window", entry |-> i, host |-> NoCert, pin |-> FALSE]
    \/ /\ Connect(c) /\ \E a \in {"open", "pin"} : sess'[c] = [sess[c] EXCEPT !.at = a, !.host = cert[Host]]
    \/ EnterPin(c) /\ sess'[c] = [sess[c] EXCEPT !.at = "save", !.pin = TRUE]
    \/ Saved(c) /\ sess[c].at = "save" /\ sess'[c] = [sess[c] EXCEPT !.at = "answer"]
    \/ Authenticated(c) /\ sess'[c] = [sess[c] EXCEPT !.at = "open"]

\* Every step moves every session in one of these ways.
LEMMA SessStep ==
    ASSUME TypeOK, Step, NEW c \in Clients
    PROVE  SessMove(c) /\ sess' \in [Clients -> Sess]
<1> USE DEF sessions
<1>1. sess \in [Clients -> Sess] /\ NoSess \in Sess /\ cert[Host] \in Certs /\ \A d \in Clients : list[d] \in Seq(Certs)
  BY DEF TypeOK, Sess, NoSess, NoCert, Certs, Machines
<1>2. ASSUME NEW m \in Machines, LoadKey(m) \/ WriteKey(m) \/ LoadCert(m) \/ WriteCert(m)
      PROVE  sess' = sess
  BY <1>2 DEF LoadKey, WriteKey, LoadCert, WriteCert
<1>3. CASE StartHost
  BY <1>1, <1>3 DEF StartHost, SessMove
<1>4. CASE StopHost \/ CrashHost
  <2>1. \A d \in Clients : sess'[d] = NoSess \/ sess'[d] = sess[d]
    BY <1>4 DEF StopHost, CrashHost, HostGone
  <2>2. DOMAIN sess' = Clients /\ sess' = [d \in Clients |-> sess'[d]]
    BY <1>4 DEF StopHost, CrashHost, HostGone
  <2>3. \A d \in Clients : sess'[d] \in Sess
    BY <1>1, <2>1
  <2> QED
    BY <2>1, <2>2, <2>3 DEF SessMove
<1>5. ASSUME NEW d \in Clients, OpenHub(d) \/ AddHost(d) \/ CloseHub(d) PROVE sess' = sess
  BY <1>5 DEF OpenHub, AddHost, CloseHub
<1>6. ASSUME NEW d \in Clients, CrashClient(d) \/ CloseWindow(d) PROVE SessMove(c) /\ sess' \in [Clients -> Sess]
  <2>1. sess' = [sess EXCEPT ![d] = NoSess]
    BY <1>6 DEF CrashClient, CloseWindow, Closed
  <2>2. sess' \in [Clients -> Sess]
    BY <1>1, <2>1
  <2>3. sess'[c] = NoSess \/ sess'[c] = sess[c]
    BY <1>1, <2>1
  <2> QED
    BY <2>2, <2>3 DEF SessMove
<1>7. ASSUME NEW d \in Clients, NEW i \in DOMAIN list[d], OpenWindow(d, i) PROVE SessMove(c) /\ sess' \in [Clients -> Sess]
  <2>1. sess' = [sess EXCEPT ![d] = [at |-> "window", entry |-> i, host |-> NoCert, pin |-> FALSE]]
    BY <1>7 DEF OpenWindow
  <2>2. [at |-> "window", entry |-> i, host |-> NoCert, pin |-> FALSE] \in Sess
    <3>1. i \in Nat
      BY <1>1
    <3>2. NoCert \in Certs
      BY DEF NoCert, Certs
    <3> QED
      BY <3>1, <3>2 DEF Sess
  <2>3. CASE d = c
    BY <1>1, <1>7, <2>1, <2>2, <2>3 DEF SessMove
  <2>4. CASE d # c
    BY <1>1, <2>1, <2>2, <2>4 DEF SessMove
  <2> QED
    BY <2>3, <2>4
<1>8. ASSUME NEW d \in Clients, Connect(d) PROVE SessMove(c) /\ sess' \in [Clients -> Sess]
  <2>1. PICK a \in {"open", "pin"} : sess' = [sess EXCEPT ![d] = [sess[d] EXCEPT !.at = a, !.host = cert[Host]]]
    <3>1. sess' = [sess EXCEPT ![d] = [sess[d] EXCEPT !.at = IF Recognised(d) THEN "open" ELSE "pin", !.host = cert[Host]]]
      BY <1>1, <1>8 DEF Connect
    <3> QED
      BY <3>1
  <2>2. [sess[d] EXCEPT !.at = a, !.host = cert[Host]] \in Sess
    BY <1>1 DEF Sess
  <2>3. CASE d = c
    BY <1>1, <1>8, <2>1, <2>2, <2>3 DEF SessMove
  <2>4. CASE d # c
    BY <1>1, <2>1, <2>2, <2>4 DEF SessMove
  <2> QED
    BY <2>3, <2>4
<1>9. ASSUME NEW d \in Clients, EnterPin(d) PROVE SessMove(c) /\ sess' \in [Clients -> Sess]
  <2>1. sess' = [sess EXCEPT ![d] = [sess[d] EXCEPT !.at = "save", !.pin = TRUE]]
    BY <1>1, <1>9 DEF EnterPin
  <2>2. [sess[d] EXCEPT !.at = "save", !.pin = TRUE] \in Sess
    BY <1>1 DEF Sess
  <2>3. CASE d = c
    BY <1>1, <1>9, <2>1, <2>2, <2>3 DEF SessMove
  <2>4. CASE d # c
    BY <1>1, <2>1, <2>2, <2>4 DEF SessMove
  <2> QED
    BY <2>3, <2>4
<1>10. ASSUME NEW d \in Clients, Saved(d) PROVE SessMove(c) /\ sess' \in [Clients -> Sess]
  <2>1. \/ sess' = sess
        \/ sess[d].at = "save" /\ sess' = [sess EXCEPT ![d] = [sess[d] EXCEPT !.at = "answer"]]
    BY <1>1, <1>10 DEF Saved
  <2>2. [sess[d] EXCEPT !.at = "answer"] \in Sess
    BY <1>1 DEF Sess
  <2>3. CASE d = c
    BY <1>1, <1>10, <2>1, <2>2, <2>3 DEF SessMove
  <2>4. CASE d # c
    BY <1>1, <2>1, <2>2, <2>4 DEF SessMove
  <2> QED
    BY <2>3, <2>4
<1>11. ASSUME NEW d \in Clients, Authenticated(d) PROVE SessMove(c) /\ sess' \in [Clients -> Sess]
  <2>1. sess' = [sess EXCEPT ![d] = [sess[d] EXCEPT !.at = "open"]]
    BY <1>1, <1>11 DEF Authenticated
  <2>2. [sess[d] EXCEPT !.at = "open"] \in Sess
    BY <1>1 DEF Sess
  <2>3. CASE d = c
    BY <1>1, <1>11, <2>1, <2>2, <2>3 DEF SessMove
  <2>4. CASE d # c
    BY <1>1, <2>1, <2>2, <2>4 DEF SessMove
  <2> QED
    BY <2>3, <2>4
<1> QED
  BY <1>1, <1>2, <1>3, <1>4, <1>5, <1>6, <1>7, <1>8, <1>9, <1>10, <1>11 DEF Step, SessMove

\* A certificate gets into a list of the host by a PIN, into one of a client by its answer.
LEMMA ListStep ==
    ASSUME TypeOK, SessOK, Step, NEW m \in Machines, NEW x, x # NoCert, Listed(x, m)'
    PROVE  \/ Listed(x, m)
           \/ m = Host /\ \E c \in Clients : EnterPin(c) /\ x = cert[c]
           \/ m \in Clients /\ Authenticated(m) /\ x = sess[m].host
<1> USE DEF files, memory, sessions, history, Listed
<1>1. /\ list \in [Machines -> Seq(Certs)] /\ listFile \in [Machines -> Seq(Certs)]
      /\ sess \in [Clients -> Sess] /\ cert \in [Machines -> Certs]
      /\ Host \in Machines /\ Clients \subseteq Machines /\ NoCert \in Certs /\ ~Occurs(x, <<>>)
  BY DEF TypeOK, Sess, Machines, NoCert, Certs, Occurs
<1>2. CASE UNCHANGED <<list, listFile>>
  BY <1>2
<1>3. ASSUME NEW n \in Machines, LoadKey(n) \/ WriteKey(n) PROVE UNCHANGED <<list, listFile>>
  BY <1>3 DEF LoadKey, WriteKey
<1>4. ASSUME NEW n \in Machines, LoadCert(n) \/ WriteCert(n) PROVE Listed(x, m)
  <2>1. UNCHANGED listFile /\ (list' = list \/ list' = [list EXCEPT ![n] = listFile[n]])
    BY <1>4 DEF LoadCert, WriteCert, Identified
  <2>2. list'[m] = list[m] \/ list'[m] = listFile[m]
    BY <1>1, <2>1
  <2> QED
    BY <2>1, <2>2
<1>5. StartHost => UNCHANGED <<list, listFile>>
  BY DEF StartHost
<1>6. CASE StopHost \/ CrashHost
  <2>1. list'[m] \in {list[m], <<>>}
    BY <1>1, <1>6 DEF StopHost, CrashHost, HostGone
  <2>2. \/ listFile' = listFile
        \/ \E f \in CutClients(list[Host]) : listFile' = [listFile EXCEPT ![Host] = f]
    BY <1>6 DEF StopHost, CrashHost
  <2>3. Occurs(x, listFile'[m]) => Occurs(x, listFile[m]) \/ Occurs(x, list[m])
    BY <1>1, <2>2, OccursCut
  <2> QED
    BY <1>1, <2>1, <2>3
<1>7. ASSUME NEW c \in Clients, OpenHub(c) PROVE Listed(x, m)
  BY <1>1, <1>7 DEF OpenHub
<1>8. ASSUME NEW c \in Clients, AddHost(c) PROVE Listed(x, m)
  <2>1. UNCHANGED listFile /\ list' = [list EXCEPT ![c] = Append(list[c], NoCert)]
    BY <1>8 DEF AddHost
  <2>2. Occurs(x, Append(list[c], NoCert)) => Occurs(x, list[c])
    BY <1>1, OccursAppend
  <2> QED
    BY <1>1, <2>1, <2>2
<1>9. ASSUME NEW c \in Clients, CloseHub(c) PROVE Listed(x, m)
  <2>1. UNCHANGED list /\ \E f \in CutHosts(list[c]) \cup {list[c]} : listFile' = [listFile EXCEPT ![c] = f]
    BY <1>9 DEF CloseHub
  <2>2. \A f \in CutHosts(list[c]) \cup {list[c]} : Occurs(x, f) => Occurs(x, list[c])
    BY <1>1, OccursCutHosts
  <2> QED
    BY <1>1, <2>1, <2>2
<1>10. ASSUME NEW c \in Clients,
              CrashClient(c) \/ (\E i \in DOMAIN list[c] : OpenWindow(c, i)) \/ Connect(c) \/ CloseWindow(c)
       PROVE  UNCHANGED <<list, listFile>>
  BY <1>10 DEF CrashClient, OpenWindow, Connect, CloseWindow
<1>11. ASSUME NEW c \in Clients, EnterPin(c)
       PROVE  Listed(x, m) \/ (m = Host /\ x = cert[c])
  <2>1. UNCHANGED listFile /\ list' = [list EXCEPT ![Host] = Append(list[Host], cert[c])]
    BY <1>11 DEF EnterPin
  <2>2. Occurs(x, Append(list[Host], cert[c])) => Occurs(x, list[Host]) \/ x = cert[c]
    BY <1>1, OccursAppend
  <2> QED
    BY <1>1, <2>1, <2>2
<1>12. ASSUME NEW c \in Clients, Saved(c) PROVE Listed(x, m)
  <2>1. UNCHANGED list /\ \E f \in CutClients(list[Host]) \cup {listFile[Host], list[Host]} : listFile' = [listFile EXCEPT ![Host] = f]
    BY <1>12 DEF Saved
  <2>2. \A f \in CutClients(list[Host]) \cup {listFile[Host], list[Host]} : Occurs(x, f) => Occurs(x, list[Host]) \/ Occurs(x, listFile[Host])
    BY <1>1, OccursCut
  <2> QED
    BY <1>1, <2>1, <2>2
<1>13. ASSUME NEW c \in Clients, Authenticated(c)
       PROVE  Listed(x, m) \/ (m = c /\ x = sess[c].host)
  <2>1. UNCHANGED listFile /\ list' = [list EXCEPT ![c] = [list[c] EXCEPT ![sess[c].entry] = sess[c].host]]
    BY <1>13 DEF Authenticated
  <2>2. sess[c].entry \in 1..Len(list[c]) /\ sess[c].host \in Certs
    BY <1>1, <1>13 DEF SessOK, Authenticated, Sess
  <2>3. Occurs(x, [list[c] EXCEPT ![sess[c].entry] = sess[c].host]) => Occurs(x, list[c]) \/ x = sess[c].host
    BY <1>1, <2>2, OccursReplace
  <2> QED
    BY <1>1, <2>1, <2>3
<1> QED
  BY <1>2, <1>3, <1>4, <1>5, <1>6, <1>7, <1>8, <1>9, <1>10, <1>11, <1>12, <1>13 DEF Step

\* A step makes at most one certificate.
LEMMA CertOne ==
    ASSUME TypeOK, Step, NEW m \in Machines, NEW n \in Machines, m # n
    PROVE  cert'[m] = cert[m] \/ cert'[n] = cert[n]
<1> USE DEF files, memory, sessions, history
<1>1. cert \in [Machines -> Certs]
  BY DEF TypeOK
<1>2. ASSUME NEW k \in Machines, LoadCert(k) PROVE cert'[m] = cert[m] \/ cert'[n] = cert[n]
  <2>1. \E x : cert' = [cert EXCEPT ![k] = x]
    BY <1>2 DEF LoadCert
  <2> QED
    BY <1>1, <2>1
<1>3. ASSUME NEW k \in Machines, LoadKey(k) \/ WriteKey(k) \/ WriteCert(k) PROVE UNCHANGED cert
  BY <1>3 DEF LoadKey, WriteKey, WriteCert
<1>4. StartHost \/ StopHost \/ CrashHost => UNCHANGED cert
  BY DEF StartHost, StopHost, CrashHost
<1>5. ASSUME NEW c \in Clients,
             \/ OpenHub(c) \/ AddHost(c) \/ CloseHub(c) \/ CrashClient(c)
             \/ \E i \in DOMAIN list[c] : OpenWindow(c, i)
             \/ Connect(c) \/ EnterPin(c) \/ Saved(c) \/ Authenticated(c) \/ CloseWindow(c)
      PROVE  UNCHANGED cert
  BY <1>5 DEF OpenHub, AddHost, CloseHub, CrashClient, OpenWindow, Connect, EnterPin, Saved, Authenticated, CloseWindow
<1> QED
  BY <1>2, <1>3, <1>4, <1>5 DEF Step

\* What a step does to the files of a machine's identity.
LEMMA FileStep ==
    ASSUME TypeOK, Step, NEW m \in Machines
    PROVE  /\ keyFile'[m] = keyFile[m] \/ (keyFile'[m] = key[m] /\ key'[m] = key[m])
           /\ \/ certFile'[m] = certFile[m] \/ certFile'[m] = NoCert
              \/ stage[m] = "certWrite" /\ certFile'[m] = cert[m] /\ cert'[m] = cert[m] /\ key'[m] = key[m]
<1> USE DEF files, memory, sessions, history
<1>1. keyFile \in [Machines -> Nat] /\ certFile \in [Machines -> Certs] /\ Host \in Machines /\ Clients \subseteq Machines
  BY DEF TypeOK, Machines
<1>2. CASE UNCHANGED <<keyFile, certFile>>
  BY <1>2
<1>3. ASSUME NEW n \in Machines, LoadKey(n) \/ LoadCert(n) PROVE UNCHANGED <<keyFile, certFile>>
  BY <1>3 DEF LoadKey, LoadCert
<1>4. ASSUME NEW n \in Machines, WriteKey(n)
      PROVE  UNCHANGED <<certFile, key>> /\ (keyFile'[m] = keyFile[m] \/ keyFile'[m] = key[m])
  BY <1>1, <1>4 DEF WriteKey
<1>5. ASSUME NEW n \in Machines, WriteCert(n)
      PROVE  /\ UNCHANGED <<keyFile, key, cert>>
             /\ \/ certFile'[m] = certFile[m] \/ certFile'[m] = NoCert
                \/ stage[m] = "certWrite" /\ certFile'[m] = cert[m]
  BY <1>1, <1>5 DEF WriteCert
<1>6. StartHost \/ StopHost => UNCHANGED <<keyFile, certFile>>
  BY DEF StartHost, StopHost
<1>7. CrashHost => UNCHANGED keyFile /\ (certFile'[m] = certFile[m] \/ certFile'[m] = NoCert)
  BY <1>1 DEF CrashHost
<1>8. ASSUME NEW c \in Clients, CrashClient(c)
      PROVE  UNCHANGED keyFile /\ (certFile'[m] = certFile[m] \/ certFile'[m] = NoCert)
  BY <1>1, <1>8 DEF CrashClient
<1>9. ASSUME NEW c \in Clients,
             \/ OpenHub(c) \/ AddHost(c) \/ CloseHub(c)
             \/ \E i \in DOMAIN list[c] : OpenWindow(c, i)
             \/ Connect(c) \/ EnterPin(c) \/ Saved(c) \/ Authenticated(c) \/ CloseWindow(c)
      PROVE  UNCHANGED <<keyFile, certFile>>
  BY <1>9 DEF OpenHub, AddHost, CloseHub, OpenWindow, Connect, EnterPin, Saved, Authenticated, CloseWindow
<1> QED
  BY <1>2, <1>3, <1>4, <1>5, <1>6, <1>7, <1>8, <1>9 DEF Step

\* What it does to the stage: it goes on from key to certificate, or elsewhere without either.
LEMMA StageStep ==
    ASSUME TypeOK, Step, NEW m \in Machines
    PROVE  \/ stage'[m] = stage[m]
           \/ stage'[m] \in {"off", "hub"}
           \/ stage[m] \in {"off", "hub"} /\ stage'[m] = "key"
           \/ stage[m] = "key" /\ stage'[m] \in {"keyWrite", "cert"}
           \/ stage[m] = "keyWrite" /\ stage'[m] = "cert"
           \/ stage[m] = "cert" /\ stage'[m] = "certWrite" /\ key'[m] = key[m]
              /\ cert'[m] = [key |-> key[m], serial |-> fresh + 1]
           \/ stage[m] = "cert" /\ stage'[m] = "ready" /\ key'[m] = key[m] /\ cert'[m] = certFile[m]
              /\ certFile[m] # NoCert /\ certFile[m].key = key[m]
           \/ stage[m] = "certWrite" /\ stage'[m] = "ready"
<1> USE DEF files, memory, sessions, history
<1>1. stage \in [Machines -> Stages] /\ cert \in [Machines -> Certs] /\ Host \in Machines /\ Clients \subseteq Machines
  BY DEF TypeOK, Machines
<1>2. CASE UNCHANGED stage
  BY <1>2
<1>3. ASSUME NEW n \in Machines, LoadKey(n)
      PROVE  stage'[m] = stage[m] \/ (stage[m] = "key" /\ stage'[m] \in {"keyWrite", "cert"})
  BY <1>1, <1>3 DEF LoadKey
<1>4. ASSUME NEW n \in Machines, WriteKey(n)
      PROVE  stage'[m] = stage[m] \/ (stage[m] = "keyWrite" /\ stage'[m] = "cert")
  BY <1>1, <1>4 DEF WriteKey
<1>5. ASSUME NEW n \in Machines, LoadCert(n)
      PROVE  \/ stage'[m] = stage[m]
             \/ stage[m] = "cert" /\ stage'[m] = "certWrite" /\ key'[m] = key[m]
                /\ cert'[m] = [key |-> key[m], serial |-> fresh + 1]
             \/ stage[m] = "cert" /\ stage'[m] = "ready" /\ key'[m] = key[m] /\ cert'[m] = certFile[m]
                /\ certFile[m] # NoCert /\ certFile[m].key = key[m]
  BY <1>1, <1>5 DEF LoadCert, Identified
<1>6. ASSUME NEW n \in Machines, WriteCert(n)
      PROVE  stage'[m] = stage[m] \/ (stage[m] = "certWrite" /\ stage'[m] = "ready")
  BY <1>1, <1>6 DEF WriteCert, Identified
<1>7. StartHost => stage'[m] = stage[m] \/ (stage[m] = "off" /\ stage'[m] = "key")
  BY <1>1 DEF StartHost
<1>8. StopHost \/ CrashHost => stage'[m] = stage[m] \/ stage'[m] \in {"off", "hub"}
  BY <1>1 DEF StopHost, CrashHost, HostGone
<1>9. ASSUME NEW c \in Clients, OpenHub(c) \/ CloseHub(c) \/ CrashClient(c) \/ CloseWindow(c)
      PROVE  stage'[m] = stage[m] \/ stage'[m] \in {"off", "hub"}
  BY <1>1, <1>9 DEF OpenHub, CloseHub, CrashClient, CloseWindow
<1>10. ASSUME NEW c \in Clients, NEW i \in DOMAIN list[c], OpenWindow(c, i)
       PROVE  stage'[m] = stage[m] \/ (stage[m] = "hub" /\ stage'[m] = "key")
  BY <1>1, <1>10 DEF OpenWindow
<1>11. ASSUME NEW c \in Clients, AddHost(c) \/ Connect(c) \/ EnterPin(c) \/ Saved(c) \/ Authenticated(c)
       PROVE  UNCHANGED stage
  BY <1>11 DEF AddHost, Connect, EnterPin, Saved, Authenticated
<1> QED
  BY <1>2, <1>3, <1>4, <1>5, <1>6, <1>7, <1>8, <1>9, <1>10, <1>11 DEF Step

\* A machine keeps only its latest identity.
LEMMA LatestStep ==
    ASSUME TypeOK, LatestOnly, Bounded, Step
    PROVE  LatestOnly'
<1> SUFFICES ASSUME NEW m \in Machines
             PROVE  /\ keyFile'[m] \in {0, key'[m]}
                    /\ certFile'[m] \in {NoCert, cert'[m]} \/ certFile'[m].key # key'[m]
                    /\ stage'[m] \in {"certWrite", "ready"} => cert'[m].key = key'[m] /\ cert'[m] # NoCert
  BY DEF LatestOnly
<1>1. /\ keyFile[m] \in {0, key[m]}
      /\ certFile[m] \in {NoCert, cert[m]} \/ certFile[m].key # key[m]
      /\ stage[m] \in {"certWrite", "ready"} => cert[m].key = key[m] /\ cert[m] # NoCert
  BY DEF LatestOnly
<1>2. /\ key[m] \in Nat /\ fresh \in Nat /\ certFile[m].key <= fresh /\ certFile[m].key \in Nat
  BY DEF TypeOK, Bounded, Certs
<1>3. certFile[m].key # fresh + 1
  BY <1>2
<1>4. PICK new : new = [key |-> key[m], serial |-> fresh + 1]
  OBVIOUS
<1>5. new # NoCert /\ new.key = key[m]
  BY <1>2, <1>4 DEF NoCert
<1>6. certFile'[m] \in {certFile[m], NoCert, cert'[m]} /\ keyFile'[m] \in {keyFile[m], key'[m]}
  BY FileStep
<1>7. \/ stage'[m] = stage[m] \/ stage'[m] \notin {"certWrite", "ready"}
      \/ stage[m] = "cert" /\ key'[m] = key[m] /\ cert'[m] = new
      \/ stage[m] = "cert" /\ key'[m] = key[m] /\ cert'[m] = certFile[m]
         /\ certFile[m] # NoCert /\ certFile[m].key = key[m]
      \/ stage[m] = "certWrite" /\ stage'[m] = "ready"
  BY <1>4, StageStep
<1>8. CASE cert'[m] = cert[m] /\ key'[m] = key[m]
  BY <1>1, <1>5, <1>6, <1>7, <1>8
<1>9. CASE stage[m] = "key" /\ keyFile[m] = 0 /\ cert'[m] = cert[m] /\ key'[m] = fresh + 1 /\ fresh' = fresh + 1
  BY <1>1, <1>3, <1>6, <1>7, <1>9
<1>10. CASE stage[m] = "cert" /\ key'[m] = key[m] /\ cert'[m] = new /\ (certFile[m] = NoCert \/ certFile[m].key # key[m])
  BY <1>1, <1>5, <1>6, <1>7, <1>10
<1> QED
  BY <1>4, <1>8, <1>9, <1>10, CertStep

\* A certificate that changes is new.
LEMMA CertSerial ==
    ASSUME TypeOK, LatestOnly, Step, NEW m \in Machines
    PROVE  cert'[m] = cert[m] \/ cert'[m].serial = fresh + 1
<1>1. PICK new : new = [key |-> key[m], serial |-> fresh + 1]
  OBVIOUS
<1>2. new.serial = fresh + 1
  BY <1>1
<1>3. cert'[m] = cert[m] \/ cert'[m] = new
  BY <1>1, CertStep
<1> QED
  BY <1>2, <1>3

\* One that is in a list is not.
LEMMA ListedSerial ==
    ASSUME TypeOK, Bounded, SessOK, Step, NEW m \in Machines, NEW x \in Certs, x # NoCert, Listed(x, m)'
    PROVE  x.serial <= fresh
<1>1. CASE Listed(x, m)
  BY <1>1 DEF Bounded
<1>2. ASSUME NEW c \in Clients, x = cert[c] PROVE x.serial <= fresh
  BY <1>2 DEF Bounded, Machines
<1>3. ASSUME m \in Clients, x = sess[m].host PROVE x.serial <= fresh
  BY <1>3 DEF Bounded
<1> QED
  BY <1>1, <1>2, <1>3, ListStep

\* Nothing that is in use is newer than the newest.
LEMMA BoundedStep ==
    ASSUME TypeOK, LatestOnly, Bounded, SessOK, Step
    PROVE  Bounded'
<1>1. fresh \in Nat /\ fresh' \in Nat /\ fresh <= fresh'
  <2>1. fresh \in Nat
    BY DEF TypeOK
  <2>2. fresh' \in {fresh, fresh + 1}
    BY FreshStep
  <2> QED
    BY <2>1, <2>2
<1>2. ASSUME NEW m \in Machines
      PROVE  key'[m] <= fresh' /\ certFile'[m].key <= fresh' /\ cert'[m].serial <= fresh'
  <2>1. /\ key[m] \in Nat /\ certFile[m] \in Certs /\ cert[m] \in Certs
        /\ key[m] <= fresh /\ certFile[m].key <= fresh /\ cert[m].serial <= fresh
    BY DEF TypeOK, Bounded
  <2>2. key[m] <= fresh' /\ certFile[m].key <= fresh' /\ cert[m].serial <= fresh' /\ NoCert.key <= fresh'
    BY <1>1, <2>1 DEF Certs, NoCert
  <2>3. PICK new : new = [key |-> key[m], serial |-> fresh + 1]
    OBVIOUS
  <2>4. key'[m] <= fresh' /\ cert'[m].serial <= fresh'
    <3>1. new.serial = fresh + 1
      BY <2>3
    <3>2. /\ key'[m] \in {key[m], fresh + 1} /\ cert'[m] \in {cert[m], new}
          /\ key'[m] # key[m] \/ cert'[m] # cert[m] => fresh' = fresh + 1
      BY <2>3, CertStep
    <3> QED
      BY <1>1, <2>2, <3>1, <3>2
  <2>5. stage[m] = "certWrite" => cert[m].key <= fresh'
    BY <2>2 DEF LatestOnly
  <2>6. certFile'[m].key <= fresh'
    BY <2>2, <2>5, FileStep
  <2> QED
    BY <2>4, <2>6
<1>3. ASSUME NEW c \in Clients PROVE sess'[c].host.serial <= fresh'
  <2>1. Host \in Machines /\ cert[Host].serial \in Nat /\ sess[c].host.serial \in Nat /\ sess[c] \in Sess
    BY DEF TypeOK, Machines, Sess, Certs
  <2>2. cert[Host].serial <= fresh' /\ sess[c].host.serial <= fresh' /\ NoSess.host.serial <= fresh' /\ NoCert.serial <= fresh'
    BY <1>1, <2>1 DEF Bounded, NoSess, NoCert
  <2>3. sess'[c].host \in {sess[c].host, NoSess.host, NoCert, cert[Host]}
    <3>1. CASE sess'[c] = sess[c] \/ sess'[c] = NoSess
      BY <3>1
    <3>2. ASSUME NEW i, sess'[c] = [at |-> "window", entry |-> i, host |-> NoCert, pin |-> FALSE]
          PROVE  sess'[c].host = NoCert
      BY <3>2
    <3>3. ASSUME NEW a, sess'[c] = [sess[c] EXCEPT !.at = a, !.host = cert[Host]]
          PROVE  sess'[c].host = cert[Host]
      BY <2>1, <3>3 DEF Sess
    <3>4. ASSUME sess'[c] = [sess[c] EXCEPT !.at = "save", !.pin = TRUE] PROVE sess'[c].host = sess[c].host
      BY <2>1, <3>4 DEF Sess
    <3>5. ASSUME NEW a, sess'[c] = [sess[c] EXCEPT !.at = a] PROVE sess'[c].host = sess[c].host
      BY <2>1, <3>5 DEF Sess
    <3>6. SessMove(c)
      BY SessStep
    <3> QED
      BY <3>1, <3>2, <3>3, <3>4, <3>5, <3>6 DEF SessMove
  <2> QED
    BY <2>2, <2>3
<1>4. ASSUME NEW m \in Machines, NEW x \in Certs, Listed(x, m)' PROVE x.serial <= fresh'
  <2>1. CASE x = NoCert
    BY <1>1, <2>1 DEF NoCert
  <2>2. CASE x # NoCert
    <3>1. x.serial <= fresh
      BY <1>4, <2>2, ListedSerial
    <3>2. x.serial \in Nat
      BY DEF Certs
    <3> QED
      BY <1>1, <3>1, <3>2
  <2> QED
    BY <2>1, <2>2
<1> QED
  BY <1>2, <1>3, <1>4 DEF Bounded

\* Certificates stay different.
LEMMA DistinctStep ==
    ASSUME TypeOK, LatestOnly, Bounded, Distinct, Step
    PROVE  Distinct'
<1> SUFFICES ASSUME NEW m \in Machines, NEW n \in Machines, m # n, cert'[m] = cert'[n]
             PROVE  cert'[m] = NoCert
  BY DEF Distinct
<1>1. /\ cert[m] = cert[n] => cert[m] = NoCert
      /\ fresh \in Nat /\ cert[m].serial \in Nat /\ cert[n].serial \in Nat
      /\ cert[m].serial <= fresh /\ cert[n].serial <= fresh
  BY DEF Distinct, TypeOK, Certs, Bounded
<1>2. cert[m].serial # fresh + 1 /\ cert[n].serial # fresh + 1
  BY <1>1
<1> QED
  BY <1>1, <1>2, CertSerial, CertOne

\* A client that has a window leaves it only together with its session.
LEMMA LeaveStep ==
    ASSUME TypeOK, SessOK, Step, NEW c \in Clients, sess[c].at # "none"
    PROVE  /\ stage'[c] \in {"off", "hub"} => sess'[c] = NoSess
           /\ Len(list'[c]) = Len(list[c])
<1> USE DEF files, memory, sessions, history
<1>1. /\ stage \in [Machines -> Stages] /\ list \in [Machines -> Seq(Certs)] /\ sess \in [Clients -> Sess]
      /\ c \in Machines /\ Host \in Machines /\ c # Host /\ Clients \subseteq Machines
  BY HostAssumption DEF TypeOK, Machines, Sess
<1>2. stage[c] \notin {"off", "hub"}
  BY DEF SessOK
<1>3. ASSUME NEW m \in Machines, LoadKey(m) \/ WriteKey(m)
      PROVE  stage'[c] \notin {"off", "hub"} /\ Len(list'[c]) = Len(list[c])
  BY <1>1, <1>2, <1>3 DEF LoadKey, WriteKey
<1>4. ASSUME NEW m \in Machines, LoadCert(m) \/ WriteCert(m)
      PROVE  stage'[c] \notin {"off", "hub"} /\ Len(list'[c]) = Len(list[c])
  <2>1. stage' = [stage EXCEPT ![m] = "certWrite"] \/ stage' = [stage EXCEPT ![m] = "ready"]
    BY <1>4 DEF LoadCert, WriteCert, Identified
  <2>2. list' = list \/ list' = [list EXCEPT ![Host] = listFile[Host]]
    BY <1>4 DEF LoadCert, WriteCert, Identified
  <2> QED
    BY <1>1, <1>2, <2>1, <2>2
<1>5. StartHost => stage'[c] \notin {"off", "hub"} /\ Len(list'[c]) = Len(list[c])
  BY <1>1, <1>2 DEF StartHost
<1>6. StopHost \/ CrashHost => /\ stage'[c] \in {"off", "hub"} => sess'[c] = NoSess
                              /\ Len(list'[c]) = Len(list[c])
  BY <1>1, <1>2 DEF StopHost, CrashHost, HostGone
<1>7. ASSUME NEW d \in Clients, OpenHub(d) \/ AddHost(d) \/ CloseHub(d)
      PROVE  stage'[c] \notin {"off", "hub"} /\ Len(list'[c]) = Len(list[c])
  <2>1. d # c
    BY <1>2, <1>7 DEF OpenHub, AddHost, CloseHub
  <2> QED
    BY <1>1, <1>2, <1>7, <2>1 DEF OpenHub, AddHost, CloseHub
<1>8. ASSUME NEW d \in Clients, CrashClient(d) \/ CloseWindow(d)
      PROVE  /\ stage'[c] \in {"off", "hub"} => sess'[c] = NoSess
             /\ Len(list'[c]) = Len(list[c])
  BY <1>1, <1>2, <1>8 DEF CrashClient, CloseWindow, Closed
<1>9. ASSUME NEW d \in Clients, NEW i \in DOMAIN list[d], OpenWindow(d, i)
      PROVE  stage'[c] \notin {"off", "hub"} /\ Len(list'[c]) = Len(list[c])
  BY <1>1, <1>2, <1>9 DEF OpenWindow
<1>10. ASSUME NEW d \in Clients, Connect(d) \/ EnterPin(d) \/ Saved(d)
       PROVE  stage'[c] \notin {"off", "hub"} /\ Len(list'[c]) = Len(list[c])
  BY <1>1, <1>2, <1>10 DEF Connect, EnterPin, Saved
<1>11. ASSUME NEW d \in Clients, Authenticated(d)
       PROVE  stage'[c] \notin {"off", "hub"} /\ Len(list'[c]) = Len(list[c])
  <2>1. UNCHANGED stage /\ list' = [list EXCEPT ![d] = [list[d] EXCEPT ![sess[d].entry] = sess[d].host]]
    BY <1>11 DEF Authenticated
  <2>2. sess[d].entry \in 1..Len(list[d]) /\ sess[d].host \in Certs
    BY <1>1, <1>11 DEF SessOK, Authenticated, Sess
  <2>3. Len([list[d] EXCEPT ![sess[d].entry] = sess[d].host]) = Len(list[d])
    BY <1>1, <2>2, OccursReplace
  <2> QED
    BY <1>1, <1>2, <2>1, <2>3
<1> QED
  BY <1>3, <1>4, <1>5, <1>6, <1>7, <1>8, <1>9, <1>10, <1>11 DEF Step

\* A host that ends takes its sessions and its saves with it; a save begins with a PIN.
LEMMA HostStep ==
    ASSUME TypeOK, SessOK, Step
    PROVE  /\ stage[Host] = "ready" /\ stage'[Host] # "ready"
                => saving' = {} /\ \A c \in Clients : sess'[c].at \notin {"pin", "save", "open"}
           /\ saving' \subseteq saving \/ \E c \in Clients : EnterPin(c)
           /\ paired \subseteq paired'
<1> USE DEF files, memory, sessions, history
<1>1. /\ stage \in [Machines -> Stages] /\ sess \in [Clients -> Sess]
      /\ Host \in Machines /\ Host \notin Clients /\ Clients \subseteq Machines
  BY HostAssumption DEF TypeOK, Machines, Sess
<1>2. ASSUME NEW m \in Machines, LoadKey(m) \/ WriteKey(m) \/ LoadCert(m) \/ WriteCert(m)
      PROVE  UNCHANGED <<saving, paired>> /\ (stage[Host] = "ready" => stage'[Host] = "ready")
  BY <1>1, <1>2 DEF LoadKey, WriteKey, LoadCert, WriteCert, Identified
<1>3. StartHost => UNCHANGED <<saving, paired>> /\ stage[Host] # "ready"
  BY DEF StartHost
<1>4. StopHost \/ CrashHost => UNCHANGED paired /\ saving' = {} /\ \A c \in Clients : sess'[c].at \notin {"pin", "save", "open"}
  BY <1>1 DEF StopHost, CrashHost, HostGone, NoSess
<1>5. ASSUME NEW c \in Clients, OpenHub(c) \/ AddHost(c) \/ CloseHub(c) \/ CrashClient(c) \/ CloseWindow(c)
      PROVE  UNCHANGED <<saving, paired>> /\ stage'[Host] = stage[Host]
  BY <1>1, <1>5 DEF OpenHub, AddHost, CloseHub, CrashClient, CloseWindow
<1>6. ASSUME NEW c \in Clients, (\E i \in DOMAIN list[c] : OpenWindow(c, i)) \/ Connect(c) \/ Authenticated(c)
      PROVE  UNCHANGED <<saving, paired>> /\ stage'[Host] = stage[Host]
  BY <1>1, <1>6 DEF OpenWindow, Connect, Authenticated
<1>7. ASSUME NEW c \in Clients, EnterPin(c)
      PROVE  paired \subseteq paired' /\ stage'[Host] = stage[Host]
  BY <1>7 DEF EnterPin
<1>8. ASSUME NEW c \in Clients, Saved(c)
      PROVE  UNCHANGED paired /\ saving' \subseteq saving /\ stage'[Host] = stage[Host]
  BY <1>8 DEF Saved
<1> QED
  BY <1>2, <1>3, <1>4, <1>5, <1>6, <1>7, <1>8 DEF Step

\* Sessions go on agreeing with processes and PINs.
LEMMA SessOKStep ==
    ASSUME TypeOK, LatestOnly, Bounded, SessOK, Joint, Step
    PROVE  SessOK'
<1> USE DEF files, memory, sessions, history
<1>1. ASSUME saving' # {} PROVE stage'[Host] = "ready"
  <2>1. CASE saving # {}
    BY <1>1, <2>1, HostStep DEF SessOK
  <2>2. ASSUME NEW c \in Clients, EnterPin(c) PROVE stage'[Host] = "ready"
    BY <2>2 DEF SessOK, EnterPin
  <2> QED
    BY <1>1, <2>1, <2>2, HostStep
<1>2. ASSUME NEW c \in Clients
      PROVE  /\ sess'[c].at # "none" => stage'[c] \notin {"off", "hub"} /\ sess'[c].entry \in 1..Len(list'[c])
             /\ sess'[c].at \in {"pin", "save", "answer", "open"} => stage'[c] = "ready" /\ sess'[c].host # NoCert
             /\ sess'[c].at \in {"pin", "save"} => stage'[Host] = "ready" /\ sess'[c].host = cert'[Host]
             /\ sess'[c].at \in {"save", "answer", "open"} => <<sess'[c].host, cert'[c]>> \in paired'
  <2>1. /\ sess[c].at # "none" => stage[c] \notin {"off", "hub"} /\ sess[c].entry \in 1..Len(list[c])
        /\ sess[c].at \in {"pin", "save", "answer", "open"} => stage[c] = "ready" /\ sess[c].host # NoCert
        /\ sess[c].at \in {"pin", "save"} => stage[Host] = "ready" /\ sess[c].host = cert[Host]
        /\ sess[c].at \in {"save", "answer", "open"} => <<sess[c].host, cert[c]>> \in paired
    BY DEF SessOK
  <2>2. /\ sess[c] \in Sess /\ list \in [Machines -> Seq(Certs)]
        /\ c \in Machines /\ Host \in Machines /\ c # Host /\ Clients \subseteq Machines
    BY HostAssumption DEF TypeOK, Machines, Sess
  <2>3. SessMove(c)
    BY SessStep
  <2>4. NoSess.at = "none"
    BY DEF NoSess
  <2>5. CASE sess'[c] = NoSess
    BY <2>4, <2>5
  <2>6. CASE sess'[c] = sess[c] /\ sess[c].at # "none"
    <3>1. stage'[c] \notin {"off", "hub"} /\ Len(list'[c]) = Len(list[c])
      BY <2>4, <2>6, LeaveStep
    <3>2. stage[c] = "ready" => stage'[c] = "ready" /\ cert'[c] = cert[c]
      BY <2>2, <3>1, StageStep, CertStep
    <3>3. sess[c].at \in {"pin", "save"} => stage'[Host] = "ready"
      BY <2>1, <2>6, HostStep
    <3>4. sess[c].at \in {"pin", "save"} => cert'[Host] = cert[Host]
      BY <2>1, <2>2, CertStep
    <3>5. paired \subseteq paired'
      BY HostStep
    <3> QED
      BY <2>1, <2>6, <3>1, <3>2, <3>3, <3>4, <3>5
  <2>7. ASSUME NEW i \in DOMAIN list[c], OpenWindow(c, i),
               sess'[c] = [at |-> "window", entry |-> i, host |-> NoCert, pin |-> FALSE]
        PROVE  sess'[c].at = "window" /\ stage'[c] = "key" /\ sess'[c].entry \in 1..Len(list'[c])
    <3>1. sess'[c].at = "window" /\ sess'[c].entry = i
      BY <2>7
    <3>2. UNCHANGED list /\ stage'[c] = "key"
      BY <2>2, <2>7 DEF OpenWindow, TypeOK
    <3>3. i \in 1..Len(list[c])
      BY <2>2
    <3> QED
      BY <3>1, <3>2, <3>3
  <2>8. ASSUME Connect(c)
        PROVE  /\ sess'[c].at \in {"open", "pin"} /\ stage'[c] = "ready" /\ sess'[c].entry \in 1..Len(list'[c])
               /\ sess'[c].host # NoCert /\ stage'[Host] = "ready" /\ sess'[c].host = cert'[Host]
               /\ sess'[c].at = "open" => <<sess'[c].host, cert'[c]>> \in paired'
    <3>1. sess' = [sess EXCEPT ![c] = [sess[c] EXCEPT !.at = IF Recognised(c) THEN "open" ELSE "pin", !.host = cert[Host]]]
      BY <2>8 DEF Connect
    <3>2. sess'[c] = [sess[c] EXCEPT !.at = IF Recognised(c) THEN "open" ELSE "pin", !.host = cert[Host]]
      BY <3>1 DEF TypeOK
    <3>3. /\ sess'[c].at = (IF Recognised(c) THEN "open" ELSE "pin")
          /\ sess'[c].host = cert[Host] /\ sess'[c].entry = sess[c].entry
      BY <2>2, <3>2 DEF Sess
    <3>4. UNCHANGED <<stage, list, cert, paired>> /\ stage[c] = "ready" /\ stage[Host] = "ready" /\ sess[c].at = "window"
      BY <2>8 DEF Connect
    <3>5. cert[c] # NoCert /\ cert[Host] # NoCert /\ sess[c].entry \in 1..Len(list[c])
      BY <2>1, <2>2, <3>4 DEF LatestOnly
    <3>6. Recognised(c) => <<cert[Host], cert[c]>> \in paired
      <4>1. DOMAIN list[c] = 1..Len(list[c])
        BY <2>2
      <4>2. Recognised(c) => Listed(cert[c], Host) /\ Listed(cert[Host], c)
        BY <3>5, <4>1 DEF Recognised, Listed, Occurs
      <4> QED
        BY <3>5, <4>2 DEF Joint
    <3> QED
      BY <3>3, <3>4, <3>5, <3>6
  <2>9. ASSUME EnterPin(c)
        PROVE  /\ sess'[c].at = "save" /\ stage'[c] = "ready" /\ sess'[c].entry \in 1..Len(list'[c])
               /\ sess'[c].host # NoCert /\ stage'[Host] = "ready" /\ sess'[c].host = cert'[Host]
               /\ <<sess'[c].host, cert'[c]>> \in paired'
    <3>1. sess'[c] = [sess[c] EXCEPT !.at = "save", !.pin = TRUE]
      BY <2>9 DEF EnterPin, TypeOK
    <3>2. sess'[c].at = "save" /\ sess'[c].host = sess[c].host /\ sess'[c].entry = sess[c].entry
      BY <2>2, <3>1 DEF Sess
    <3>3. /\ UNCHANGED <<stage, cert>> /\ sess[c].at = "pin" /\ paired' = paired \cup {<<sess[c].host, cert[c]>>}
      BY <2>9 DEF EnterPin
    <3>4. list'[c] = list[c]
      BY <2>2, <2>9 DEF EnterPin
    <3> QED
      BY <2>1, <3>2, <3>3, <3>4
  <2>10. ASSUME Saved(c) \/ Authenticated(c), sess[c].at \in {"save", "answer"},
                \E a \in {"answer", "open"} : sess'[c] = [sess[c] EXCEPT !.at = a]
         PROVE  /\ sess'[c].at \in {"answer", "open"} /\ stage'[c] = "ready" /\ sess'[c].entry \in 1..Len(list'[c])
                /\ sess'[c].host # NoCert
                /\ <<sess'[c].host, cert'[c]>> \in paired'
    <3>1. sess'[c].at \in {"answer", "open"} /\ sess'[c].host = sess[c].host /\ sess'[c].entry = sess[c].entry
      BY <2>2, <2>10 DEF Sess
    <3>2. UNCHANGED <<stage, cert, paired>>
      BY <2>10 DEF Saved, Authenticated
    <3>3. Len(list'[c]) = Len(list[c])
      BY <2>10, LeaveStep
    <3> QED
      BY <2>1, <2>10, <3>1, <3>2, <3>3
  <2>11. Authenticated(c) => sess[c].at = "answer"
    BY DEF Authenticated
  <2>12. sess[c].at = "none" /\ sess'[c] = sess[c] => sess'[c].at = "none"
    OBVIOUS
  <2>13. CASE sess'[c] = sess[c]
    BY <2>6, <2>12, <2>13
  <2>14. CASE \E i \in DOMAIN list[c] : OpenWindow(c, i) /\ sess'[c] = [at |-> "window", entry |-> i, host |-> NoCert, pin |-> FALSE]
    BY <2>7, <2>14
  <2>15. CASE Connect(c)
    BY <2>8, <2>15
  <2>16. CASE EnterPin(c)
    BY <2>9, <2>16
  <2>17. CASE Saved(c) /\ sess[c].at = "save" /\ sess'[c] = [sess[c] EXCEPT !.at = "answer"]
    BY <2>10, <2>17
  <2>18. CASE Authenticated(c) /\ sess'[c] = [sess[c] EXCEPT !.at = "open"]
    BY <2>10, <2>11, <2>18
  <2> QED
    BY <2>3, <2>5, <2>13, <2>14, <2>15, <2>16, <2>17, <2>18 DEF SessMove
<1> QED
  BY <1>1, <1>2 DEF SessOK

\* Host and client that know each other have been confirmed by a PIN.
LEMMA JointStep ==
    ASSUME TypeOK, LatestOnly, Bounded, Distinct, SessOK, Joint, Step
    PROVE  Joint'
<1> SUFFICES ASSUME NEW c \in Clients, Listed(cert[c], Host)', Listed(cert[Host], c)',
                    cert'[c] # NoCert, cert'[Host] # NoCert
             PROVE  <<cert'[Host], cert'[c]>> \in paired'
  BY DEF Joint
<1>1. /\ c \in Machines /\ Host \in Machines /\ c # Host /\ Clients \subseteq Machines /\ fresh \in Nat
      /\ sess[c] \in Sess
  BY HostAssumption DEF TypeOK, Machines, Sess
<1>2. paired \subseteq paired'
  BY HostStep
<1>3. ASSUME NEW m \in Machines, NEW n \in Machines, Listed(cert[m], n)', cert'[m] # NoCert
      PROVE  cert'[m] = cert[m]
  <2>1. PICK x : x = cert'[m]
    OBVIOUS
  <2>2. x \in Certs
    BY <2>1, DataStep DEF DataOK
  <2>3. Listed(x, n)'
    BY <1>3, <2>1 DEF Listed
  <2>4. x.serial \in Nat /\ x.serial <= fresh
    BY <1>3, <2>1, <2>2, <2>3, ListedSerial DEF Certs
  <2>5. x.serial # fresh + 1
    BY <1>1, <2>4
  <2> QED
    BY <2>1, <2>5, CertSerial
<1>4. cert'[c] = cert[c] /\ cert'[Host] = cert[Host]
  BY <1>1, <1>3
<1>5. PICK x : x = cert[c]
  OBVIOUS
<1>6. PICK y : y = cert[Host]
  OBVIOUS
<1>7. Listed(x, Host)' /\ Listed(y, c)' /\ x # NoCert /\ y # NoCert
  BY <1>4, <1>5, <1>6 DEF Listed
<1>8. ASSUME NEW d \in Clients, EnterPin(d), x = cert[d] PROVE <<cert[Host], cert[c]>> \in paired'
  <2>1. d = c
    BY <1>1, <1>5, <1>7, <1>8 DEF Distinct
  <2>2. sess[c].at = "pin" /\ paired' = paired \cup {<<sess[c].host, cert[c]>>}
    BY <1>8, <2>1 DEF EnterPin
  <2>3. sess[c].host = cert[Host]
    BY <2>2 DEF SessOK
  <2> QED
    BY <2>2, <2>3
<1>9. ASSUME Authenticated(c), y = sess[c].host PROVE <<cert[Host], cert[c]>> \in paired
  BY <1>6, <1>9 DEF Authenticated, SessOK
<1>10. ASSUME Listed(x, Host), Listed(y, c) PROVE <<cert[Host], cert[c]>> \in paired
  BY <1>4, <1>5, <1>6, <1>10 DEF Joint
<1>11. Listed(x, Host) \/ <<cert[Host], cert[c]>> \in paired'
  <2>1. \/ Listed(x, Host)
        \/ Host = Host /\ \E d \in Clients : EnterPin(d) /\ x = cert[d]
        \/ Host \in Clients /\ Authenticated(Host) /\ x = sess[Host].host
    BY <1>1, <1>7, ListStep
  <2> QED
    BY <2>1, <1>8, HostAssumption
<1>12. Listed(y, c) \/ <<cert[Host], cert[c]>> \in paired
  BY <1>1, <1>7, <1>9, ListStep
<1> QED
  BY <1>2, <1>4, <1>10, <1>11, <1>12

\* What a step does to clients.toml and the host's list, and to what the PINs have confirmed.
HostList ==
    \/ UNCHANGED <<paired, cut, saving>> /\ list'[Host] = list[Host] /\ listFile'[Host] = listFile[Host]
       /\ (stage'[Host] = "ready" <=> stage[Host] = "ready")
    \/ UNCHANGED <<paired, cut, saving>> /\ list'[Host] = listFile[Host] /\ listFile'[Host] = listFile[Host]
       /\ stage[Host] # "ready" /\ stage'[Host] = "ready"
    \/ UNCHANGED paired /\ saving' = {} /\ stage'[Host] = "off" /\ (saving = {} => listFile'[Host] = listFile[Host])
       /\ (~cut' => ~cut /\ saving = {})
    \/ \E c \in Clients : EnterPin(c)
    \/ \E c \in Clients : Saved(c)

\* It does nothing else.
LEMMA HostListStep ==
    ASSUME TypeOK, SessOK, Step
    PROVE  HostList
<1> USE DEF files, memory, sessions, history
<1>1. /\ stage \in [Machines -> Stages] /\ list \in [Machines -> Seq(Certs)] /\ listFile \in [Machines -> Seq(Certs)]
      /\ Host \in Machines /\ Host \notin Clients /\ Clients \subseteq Machines
  BY HostAssumption DEF TypeOK, Machines
<1>2. ASSUME NEW m \in Machines, LoadKey(m) \/ WriteKey(m) PROVE HostList
  BY <1>1, <1>2 DEF LoadKey, WriteKey, HostList
<1>3. ASSUME NEW m \in Machines, LoadCert(m) PROVE HostList
  <2>1. UNCHANGED <<paired, cut, saving, listFile>>
    BY <1>3 DEF LoadCert
  <2>2. CASE m # Host
    BY <1>1, <1>3, <2>1, <2>2 DEF LoadCert, Identified, HostList
  <2>3. CASE m = Host
    BY <1>1, <1>3, <2>1, <2>3 DEF LoadCert, Identified, HostList
  <2> QED
    BY <2>2, <2>3
<1>4. ASSUME NEW m \in Machines, WriteCert(m) PROVE HostList
  <2>1. UNCHANGED <<paired, cut, saving, listFile>>
    BY <1>4 DEF WriteCert
  <2>2. CASE m # Host
    BY <1>1, <1>4, <2>1, <2>2 DEF WriteCert, Identified, HostList
  <2>3. CASE m = Host
    BY <1>1, <1>4, <2>1, <2>3 DEF WriteCert, Identified, HostList
  <2> QED
    BY <2>2, <2>3
<1>5. CASE StartHost
  BY <1>1, <1>5 DEF StartHost, HostList
<1>6. CASE StopHost
  BY <1>1, <1>6 DEF StopHost, HostGone, HostList
<1>7. CASE CrashHost
  BY <1>1, <1>7 DEF CrashHost, HostGone, HostList
<1>8. ASSUME NEW c \in Clients, OpenHub(c) \/ AddHost(c) \/ CloseHub(c) PROVE HostList
  BY <1>1, <1>8 DEF OpenHub, AddHost, CloseHub, HostList
<1>9. ASSUME NEW c \in Clients, CrashClient(c) \/ Connect(c) \/ CloseWindow(c) \/ \E i \in DOMAIN list[c] : OpenWindow(c, i)
      PROVE  HostList
  BY <1>1, <1>9 DEF CrashClient, Connect, CloseWindow, OpenWindow, HostList
<1>10. ASSUME NEW c \in Clients, Authenticated(c) PROVE HostList
  BY <1>1, <1>10 DEF Authenticated, HostList
<1> QED
  BY <1>2, <1>3, <1>4, <1>5, <1>6, <1>7, <1>8, <1>9, <1>10 DEF Step, HostList

\* While no save is going on, the file and the list stay the same.
LEMMA FileAgreesStep ==
    ASSUME TypeOK, SessOK, FileAgrees, Step
    PROVE  FileAgrees'
<1> SUFFICES ASSUME ~cut', saving' = {}, stage'[Host] = "ready"
             PROVE  list'[Host] = listFile'[Host]
  BY DEF FileAgrees
<1>1. listFile \in [Machines -> Seq(Certs)] /\ list \in [Machines -> Seq(Certs)] /\ Host \in Machines
  BY DEF TypeOK, Machines
<1>2. ASSUME NEW c \in Clients, EnterPin(c) PROVE FALSE
  BY <1>2 DEF EnterPin
<1>3. ASSUME NEW c \in Clients, Saved(c) PROVE list'[Host] = listFile'[Host]
  BY <1>1, <1>3 DEF Saved, memory
<1> QED
  BY <1>2, <1>3, HostListStep DEF HostList, FileAgrees

\* No step loses a pairing, unless it cuts a save short.
LEMMA PairingsKeptStep ==
    ASSUME TypeOK, SessOK, FileAgrees, PairingsKept, Step
    PROVE  PairingsKept'
<1>1. /\ listFile \in [Machines -> Seq(Certs)] /\ list \in [Machines -> Seq(Certs)] /\ Host \in Machines
      /\ cert \in [Machines -> Certs] /\ Clients \subseteq Machines
  BY DEF TypeOK, Machines
<1>2. PICK kept : kept = IF stage[Host] = "ready" THEN list[Host] ELSE listFile[Host]
  OBVIOUS
<1>3. PICK keep : keep = IF stage'[Host] = "ready" THEN list'[Host] ELSE listFile'[Host]
  OBVIOUS
<1>4. ~cut => \A p \in paired : Occurs(p[2], kept)
  BY <1>2 DEF PairingsKept
<1>5. SUFFICES ASSUME ~cut', NEW p \in paired' PROVE Occurs(p[2], keep)
  BY <1>3 DEF PairingsKept, Occurs
<1>6. ASSUME NEW c \in Clients, EnterPin(c) PROVE Occurs(p[2], keep)
  <2>1. stage[Host] = "ready" /\ stage' = stage /\ cut' = cut
    BY <1>6 DEF EnterPin, SessOK
  <2>2. kept = list[Host] /\ keep = Append(kept, cert[c])
    BY <1>1, <1>2, <1>3, <1>6, <2>1 DEF EnterPin
  <2>3. kept \in Seq(Certs) /\ cert[c] \in Certs
    BY <1>1, <2>2
  <2>4. Occurs(cert[c], keep) /\ \A x : Occurs(x, kept) => Occurs(x, keep)
    BY <2>2, <2>3, OccursAppend
  <2>5. CASE p \in paired
    BY <1>4, <1>5, <2>1, <2>4, <2>5
  <2>6. CASE p = <<sess[c].host, cert[c]>>
    BY <2>4, <2>6
  <2> QED
    BY <1>5, <1>6, <2>5, <2>6 DEF EnterPin
<1>7. ASSUME NEW c \in Clients, Saved(c) PROVE Occurs(p[2], keep)
  <2>1. stage[Host] = "ready" /\ stage' = stage /\ list' = list /\ paired' = paired
    BY <1>7 DEF Saved, SessOK, memory
  <2>2. ~cut
    BY <1>5, <1>7 DEF Saved
  <2>3. kept = keep
    BY <1>2, <1>3, <2>1
  <2> QED
    BY <1>4, <1>5, <2>1, <2>2, <2>3
<1>8. CASE \E c \in Clients : EnterPin(c) \/ Saved(c)
  BY <1>6, <1>7, <1>8
<1>9. CASE ~ \E c \in Clients : EnterPin(c) \/ Saved(c)
  <2>1. paired' = paired /\ ~cut /\ kept = keep
    <3>1. paired' = paired /\ ~cut
      BY <1>5, <1>9, HostListStep DEF HostList
    <3>2. stage[Host] = "ready" /\ saving = {} => list[Host] = listFile[Host]
      BY <3>1 DEF FileAgrees
    <3> QED
      BY <1>2, <1>3, <1>5, <1>9, <3>1, <3>2, HostListStep DEF HostList
  <2> QED
    BY <1>4, <1>5, <2>1
<1> QED
  BY <1>8, <1>9

\* Every step keeps the types.
LEMMA TypeStep ==
    ASSUME TypeOK, SessOK, Step
    PROVE  TypeOK'
<1>1. DataOK'
  BY DataStep
<1>2. sess' \in [Clients -> Sess]
  <2>1. sess \in [Clients -> Sess]
    BY DEF TypeOK, Sess
  <2>2. CASE \E c \in Clients : TRUE
    BY <2>2, SessStep
  <2>3. CASE ~ \E c \in Clients : TRUE
    <3>1. sess' = sess \/ HostGone
      BY <2>3 DEF Step, LoadKey, WriteKey, LoadCert, WriteCert, StartHost, StopHost, CrashHost, sessions
    <3>2. ASSUME HostGone PROVE sess' \in [Clients -> Sess]
      BY <2>3, <3>2 DEF HostGone
    <3> QED
      BY <2>1, <3>1, <3>2
  <2> QED
    BY <2>2, <2>3
<1>3. cut' \in BOOLEAN
  <2> USE DEF history
  <2>1. cut \in BOOLEAN
    BY DEF TypeOK
  <2>2. ASSUME CrashHost PROVE cut' \in BOOLEAN
    BY <2>2, Zenon DEF CrashHost
  <2>3. ASSUME NEW c \in Clients, Saved(c) PROVE cut' \in BOOLEAN
    BY <2>1, <2>3, Zenon DEF Saved
  <2>4. CASE cut' = cut
    BY <2>1, <2>4, Zenon
  <2>5. ASSUME NEW m \in Machines, LoadKey(m) \/ WriteKey(m) \/ LoadCert(m) \/ WriteCert(m) PROVE cut' = cut
    BY <2>5, Zenon DEF LoadKey, WriteKey, LoadCert, WriteCert
  <2>6. ASSUME StartHost \/ StopHost PROVE cut' = cut
    BY <2>6, Zenon DEF StartHost, StopHost
  <2>7. ASSUME NEW c \in Clients, \/ OpenHub(c) \/ AddHost(c) \/ CloseHub(c) \/ CrashClient(c)
                                 \/ \E i \in DOMAIN list[c] : OpenWindow(c, i)
        PROVE  cut' = cut
    BY <2>7, Zenon DEF OpenHub, AddHost, CloseHub, CrashClient, OpenWindow
  <2>8. ASSUME NEW c \in Clients, Connect(c) \/ EnterPin(c) \/ Authenticated(c) \/ CloseWindow(c) PROVE cut' = cut
    BY <2>8, Zenon DEF Connect, EnterPin, Authenticated, CloseWindow
  <2> QED
    BY <2>2, <2>3, <2>4, <2>5, <2>6, <2>7, <2>8, Zenon DEF Step
<1>4. sess' \in [Clients -> [at : {"none", "window", "pin", "save", "answer", "open"},
                             entry : Nat, host : Certs, pin : BOOLEAN]]
  BY <1>2 DEF Sess
<1> QED
  BY <1>1, <1>3, <1>4, Zenon DEF TypeOK, DataOK

\* It holds initially.
LEMMA InitLemma == Init => IdInv
<1> SUFFICES ASSUME Init PROVE IdInv
  OBVIOUS
<1>1. TypeOK
  <2>1. NoCert \in Certs /\ <<>> \in Seq(Certs) /\ 0 \in Nat /\ 0 \in 0..MaxFaults /\ "off" \in Stages
    BY BoundAssumption DEF NoCert, Certs, Stages
  <2>2. NoSess \in [at : {"none", "window", "pin", "save", "answer", "open"},
                    entry : Nat, host : Certs, pin : BOOLEAN]
    BY <2>1 DEF NoSess
  <2>3. cut \in BOOLEAN
    BY DEF Init
  <2>4. /\ keyFile \in [Machines -> Nat] /\ certFile \in [Machines -> Certs]
        /\ listFile \in [Machines -> Seq(Certs)] /\ stage \in [Machines -> Stages]
        /\ key \in [Machines -> Nat] /\ cert \in [Machines -> Certs] /\ list \in [Machines -> Seq(Certs)]
    BY <2>1 DEF Init
  <2>5. saving \subseteq Clients /\ fresh \in Nat /\ faults \in 0..MaxFaults /\ paired \subseteq Certs \X Certs
    BY <2>1 DEF Init
  <2>6. sess \in [Clients -> [at : {"none", "window", "pin", "save", "answer", "open"},
                              entry : Nat, host : Certs, pin : BOOLEAN]]
    BY <2>2 DEF Init
  <2> QED
    BY <2>3, <2>4, <2>5, <2>6, Zenon DEF TypeOK
<1>2. LatestOnly /\ Distinct /\ SessOK
  BY DEF Init, LatestOnly, Distinct, SessOK, NoSess, Machines
<1>3. Bounded
  BY DEF Init, Bounded, Listed, Occurs, NoSess, NoCert, Machines
<1>4. Joint /\ FileAgrees /\ PairingsKept
  BY DEF Init, Joint, FileAgrees, PairingsKept, Machines
<1> QED
  BY <1>1, <1>2, <1>3, <1>4 DEF IdInv

\* The inductive invariant holds: it is what the theorems below are read from.
THEOREM IdentityCorrect == Spec => []IdInv
<1>1. IdInv /\ [Next]_vars => IdInv'
  <2> SUFFICES ASSUME IdInv, [Next]_vars PROVE IdInv'
    OBVIOUS
  <2>1. /\ TypeOK /\ LatestOnly /\ Bounded /\ Distinct /\ SessOK /\ Joint /\ FileAgrees /\ PairingsKept
    BY DEF IdInv
  <2>2. CASE Step
    <3>1. TypeOK' /\ LatestOnly' /\ Bounded'
      BY <2>1, <2>2, TypeStep, LatestStep, BoundedStep
    <3>2. Distinct' /\ SessOK' /\ Joint'
      BY <2>1, <2>2, DistinctStep, SessOKStep, JointStep
    <3>3. FileAgrees' /\ PairingsKept'
      BY <2>1, <2>2, FileAgreesStep, PairingsKeptStep
    <3> QED
      BY <3>1, <3>2, <3>3 DEF IdInv
  <2>3. CASE UNCHANGED vars
    <3> USE DEF vars, files, memory, sessions, history
    <3>1. TypeOK' /\ LatestOnly' /\ Distinct' /\ FileAgrees'
      BY <2>1, <2>3 DEF TypeOK, LatestOnly, Distinct, FileAgrees
    <3>2. Bounded'
      BY <2>1, <2>3 DEF Bounded, Listed, Occurs
    <3>3. SessOK'
      BY <2>1, <2>3 DEF SessOK
    <3>4. Joint' /\ PairingsKept'
      BY <2>1, <2>3 DEF Joint, PairingsKept, Listed, Occurs
    <3> QED
      BY <3>1, <3>2, <3>3, <3>4 DEF IdInv
  <2> QED
    BY <2>2, <2>3, NextIsStep
<1> QED
  BY <1>1, InitLemma, PTL DEF Spec

\* Whatever crash comes between the writes of key and certificate (Keypair, CertStore), a
\* process that has both has a certificate of its key.
THEOREM CertCorrect == Spec => []CertMatchesKey
<1>1. IdInv => CertMatchesKey
  BY DEF IdInv, LatestOnly, CertMatchesKey
<1> QED
  BY <1>1, IdentityCorrect, PTL

\* A session that doIntro_ opens, with or without asking for a PIN, is between two
\* certificates that a PIN has confirmed.
THEOREM OpenCorrect == Spec => []OpenMeansPaired
<1>1. IdInv => OpenMeansPaired
  BY DEF IdInv, SessOK, OpenMeansPaired
<1> QED
  BY <1>1, IdentityCorrect, PTL

\* Unless a save of clients.toml was cut short, the host knows every client that a PIN has
\* confirmed, after any number of ends and crashes of the host.
THEOREM KeptCorrect == Spec => []PairingsKept
<1>1. IdInv => PairingsKept
  BY DEF IdInv
<1> QED
  BY <1>1, IdentityCorrect, PTL
=============================================================================
