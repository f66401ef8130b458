------------------------------ MODULE RbServer ------------------------------
(***************************************************************************)
(* rbserver: it connects to the broker, registers the machines of its      *)
(* machine file and then answers the broker's requests on that connection  *)
(* (rbio.c, and the loop of rbserver.c).                                   *)
(***************************************************************************)
EXTENDS Sockets

CONSTANTS NumMachines,  \* server -> the machines in its machine file
          Slots,        \* what the uninitialised index may hold
          Mortal        \* the servers that may be killed

ASSUME RbServerAssumption ==
  /\ NumMachines \in [Servers -> Nat]
  /\ Slots \subseteq Nat
  /\ Mortal \subseteq Servers

VARIABLES sst,    \* server -> where it is
          asked   \* server -> the machines the broker wants (hdr->len)

SstStates == {"start", "connected", "header_sent", "registering", "ready",
              "boot_header", "boot_body", "hung", "idle", "failed", "killed"}

sVars == <<sst, asked>>

-----------------------------------------------------------------------------
\* register_with_broker.

ServerConnect(s) ==
  /\ sst[s] = "start"
  /\ PeerConnect(s)
  /\ sst' = [sst EXCEPT ![s] = "connected"]
  /\ UNCHANGED asked

ServerConnectFails(s) ==
  /\ sst[s] = "start" /\ ~listening
  /\ sst' = [sst EXCEPT ![s] = "failed"]
  /\ UNCHANGED netVars
  /\ UNCHANGED asked

SendRegisterHeader(s) ==
  /\ sst[s] = "connected"
  /\ PeerWrote(s, Header(BROKER_SERVER_REGISTER, 1))
  /\ sst' = [sst EXCEPT ![s] = "header_sent"]
  /\ UNCHANGED asked

SendRegisterBody(s) ==
  /\ sst[s] = "header_sent"
  /\ PeerWrote(s, Body("register", 0))
  /\ sst' = [sst EXCEPT ![s] = "registering"]
  /\ UNCHANGED asked

\* A write to the closed connection, or the read of the reply, failed (or the
\* reply is not BROKER_OK): the process closes its socket and exits.
RegistrationFails(s) ==
  /\ sst[s] \in {"connected", "header_sent", "registering"}
  /\ IF sst[s] = "registering" THEN PeerAtEof(s) ELSE link[s] = "closed"
  /\ PeerClosed(s, down[s])
  /\ sst' = [sst EXCEPT ![s] = "failed"]
  /\ UNCHANGED asked

RegistrationReply(s) ==
  /\ sst[s] = "registering"
  /\ down[s] # <<>>
  /\ IF Head(down[s]).op = BROKER_OK
       THEN PeerReceived(s) /\ sst' = [sst EXCEPT ![s] = "ready"]
       ELSE PeerClosed(s, Tail(down[s])) /\ sst' = [sst EXCEPT ![s] = "failed"]
  /\ UNCHANGED asked

-----------------------------------------------------------------------------
\* The event loop.  In "int cc = process_broker_request(ev[cc].data.fd)" the cc
\* of the index is the one being declared: whatever its register or stack slot
\* holds.  Only event 0 is filled; the others name descriptor 0, standard
\* input, and the process blocks on it or spins, never reading the socket.

\* Mutant: the index starts at 1.
ReadRequest_NextSlot(s) ==
  /\ sst[s] = "ready"
  /\ down[s] # <<>>
  /\ sst' = [sst EXCEPT ![s] = "hung"]
  /\ UNCHANGED <<asked, netVars>>

ReadRequest(s) ==
  /\ sst[s] = "ready"
  /\ down[s] # <<>>
  /\ \E cc \in Slots :
       IF cc = 0
         THEN /\ PeerReceived(s)
              /\ IF Head(down[s]).op = SERVER_BOOT_RESOURCES
                   THEN /\ sst' = [sst EXCEPT ![s] = "boot_header"]
                        /\ asked' = [asked EXCEPT ![s] = Head(down[s]).len]
                   ELSE UNCHANGED sVars
         ELSE /\ sst' = [sst EXCEPT ![s] = "hung"]
              /\ UNCHANGED <<asked, netVars>>

\* Mutant: only a reset is an end.
LoseBroker_ResetOnly(s) ==
  /\ sst[s] = "ready"
  /\ PeerAtEof(s) /\ end[s] = "rst"
  /\ PeerClosed(s, <<>>)
  /\ sst' = [sst EXCEPT ![s] = "idle"]
  /\ UNCHANGED asked

\* The broker is gone.  The socket is closed, the error of
\* process_broker_request is dropped, and epoll_wait has nothing left to report.
LoseBroker(s) ==
  /\ sst[s] = "ready"
  /\ PeerAtEof(s)
  /\ \E cc \in Slots :
       IF cc = 0
         THEN PeerClosed(s, <<>>) /\ sst' = [sst EXCEPT ![s] = "idle"]
         ELSE UNCHANGED netVars /\ sst' = [sst EXCEPT ![s] = "hung"]
  /\ UNCHANGED asked

\* Mutant: hdr.len of the answer is never set.
SendBootHeader_NoLength(s) ==
  /\ sst[s] = "boot_header"
  /\ PeerWrote(s, Header(SERVER_RESOURCES_OK, 0))
  /\ sst' = [sst EXCEPT ![s] = "boot_body"]
  /\ UNCHANGED asked

\* boot_resources.
SendBootHeader(s) ==
  /\ sst[s] = "boot_header"
  /\ PeerWrote(s, Header(SERVER_RESOURCES_OK, 1))
  /\ sst' = [sst EXCEPT ![s] = "boot_body"]
  /\ UNCHANGED asked

Offered(s) == IF NumMachines[s] < asked[s] THEN NumMachines[s] ELSE asked[s]

SendBootBody(s) ==
  /\ sst[s] = "boot_body"
  /\ PeerWrote(s, Body("machines", Offered(s)))
  /\ sst' = [sst EXCEPT ![s] = "ready"]
  /\ asked' = [asked EXCEPT ![s] = 0]

\* The broker is gone: the first write may return -1, which boot_resources
\* returns to nobody; the second may raise SIGPIPE.
BootReplyFails(s) ==
  /\ link[s] = "closed"
  /\ \/ /\ sst[s] = "boot_header"
        /\ sst' = [sst EXCEPT ![s] = "ready"]
        /\ UNCHANGED netVars
     \/ /\ sst[s] = "boot_body"
        /\ sst' = [sst EXCEPT ![s] = "killed"]
        /\ PeerClosed(s, down[s])
  /\ asked' = [asked EXCEPT ![s] = 0]

-----------------------------------------------------------------------------
\* The kernel closes the socket of a process that is killed.
KillServer(s) ==
  /\ s \in Mortal
  /\ sst[s] \notin {"start", "idle", "failed", "killed"}
  /\ PeerClosed(s, down[s])
  /\ sst' = [sst EXCEPT ![s] = "killed"]
  /\ asked' = [asked EXCEPT ![s] = 0]

ServerInit ==
  /\ sst = [s \in Servers |-> "start"]
  /\ asked = [s \in Servers |-> 0]

ServerRuns(s) ==
  \/ ServerConnectFails(s)
  \/ SendRegisterHeader(s)
  \/ SendRegisterBody(s)
  \/ RegistrationFails(s)
  \/ RegistrationReply(s)
  \/ ReadRequest(s)
  \/ LoseBroker(s)
  \/ SendBootHeader(s)
  \/ SendBootBody(s)
  \/ BootReplyFails(s)

ServerStep(s) == ServerConnect(s) \/ ServerRuns(s) \/ KillServer(s)
=============================================================================
