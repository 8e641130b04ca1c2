--------------------------------- MODULE Net ---------------------------------
(***************************************************************************)
(* The network calls of src/drivers/net.c (DHCP, ping, DNS, HTTP over TCP) *)
(* against a network that loses, repeats, delays and reorders packets.     *)
(*                                                                         *)
(* The calls wait in loops that poll the card until an answer has come or  *)
(* a time is over; none of them gives up the CPU, so one runs at a time,   *)
(* and between calls the idle task polls.  Whatever was sent once may be   *)
(* answered at any later moment, any number of times: the variable sent    *)
(* only grows, and a handler step takes its frame from what the peers can  *)
(* have answered.  A waiting loop may be left at any moment: its time may  *)
(* be over.  Calls start at different ticks of the timer, so clock stands  *)
(* for what the code derives from pit_get_ticks: the transaction ids of    *)
(* DHCP and DNS and the local port of a connection.                        *)
(***************************************************************************)
EXTENDS Integers, Sequences, FiniteSetsExt

CONSTANTS
  Calls,       \* the calls that are made
  MaxCalls,    \* bound: number of calls
  Hosts,       \* hosts one can ask for, each with a web server
  Servers,     \* DHCP servers
  HeaderLen,   \* length of the header of each host's answer, its end included
  BodyLen,     \* length of its body
  BadStatus,   \* hosts whose status line has no status code
  MaxHeader,   \* sizeof(header_buf) - 1
  MaxBody,     \* body_out_size - 1
  MaxRetries,  \* SYN packets sent again
  SeqMod,      \* 2^32
  Isn          \* sequence number of the servers' SYN

None == "none"

ASSUME NetAssumption ==
  /\ Calls \subseteq {"dhcp", "ping", "dns", "http"}
  /\ None \notin Hosts /\ "gateway" \notin Hosts
  /\ Servers \subseteq Nat \ {0}
  /\ HeaderLen \in [Hosts -> Nat \ {0}]
  /\ BodyLen \in [Hosts -> Nat]
  /\ BadStatus \subseteq Hosts
  /\ {MaxCalls, MaxHeader, MaxBody, MaxRetries} \subseteq Nat
  /\ SeqMod \in Nat /\ Isn \in 0 .. SeqMod - 1
  /\ \A h \in Hosts : HeaderLen[h] + BodyLen[h] + 3 < SeqMod

VARIABLES
  cfg,     \* net_config: the address, the lease the other fields are from
  arp,     \* arp_cache: the neighbour it knows, or None
  dhcp,    \* dhcp_state
  dns,     \* dns_state
  ping,    \* ping_state
  tcp,     \* tcp_http
  call,    \* the call in progress
  clock,   \* number of calls so far
  sent     \* history: the packets sent so far

vars == <<cfg, arp, dhcp, dns, ping, tcp, call, clock, sent>>

\* What a DHCP server offers: the transaction and the server tell leases apart.
Leases  == (1 .. MaxCalls) \X Servers
NoLease == <<0, 0>>

\* A unit of a server's answer: the connection and the position.
Units == (1 .. MaxCalls) \X Nat

NoDhcp == [xid |-> 0, waitOffer |-> FALSE, waitAck |-> FALSE, offered |-> NoLease,
           server |-> 0, opts |-> NoLease]
NoDns  == [waiting |-> FALSE, got |-> FALSE, xid |-> 0, result |-> None]
NoPing == [waiting |-> FALSE, got |-> FALSE, seq |-> 0, answer |-> None]

\* tcp_http_reset
NoTcp ==
  [active |-> FALSE, connecting |-> FALSE, established |-> FALSE, failed |-> FALSE,
   finSeen |-> FALSE, headerDone |-> FALSE, statusValid |-> FALSE, truncated |-> FALSE,
   remote |-> None, port |-> 0, next |-> 0, headerLen |-> 0, body |-> <<>>, total |-> 0]

\* then is where a call goes on once its packet is sent.
NoCall == [name |-> None, pc |-> "idle", then |-> None, host |-> None, retries |-> 0, ok |-> FALSE]

Addresses == Leases \union {NoLease}

TypeOK ==
  /\ cfg \in [ip : Addresses, opts : Addresses, configured : BOOLEAN]
  /\ arp \in Hosts \union {"gateway", None}
  /\ dhcp \in [xid : 0 .. MaxCalls, waitOffer : BOOLEAN, waitAck : BOOLEAN,
               offered : Addresses, server : Servers \union {0}, opts : Addresses]
  /\ dns \in [waiting : BOOLEAN, got : BOOLEAN, xid : 0 .. MaxCalls, result : Hosts \union {None}]
  /\ ping \in [waiting : BOOLEAN, got : BOOLEAN, seq : 0 .. MaxCalls, answer : Hosts \union {None}]
  /\ tcp \in [active : BOOLEAN, connecting : BOOLEAN, established : BOOLEAN, failed : BOOLEAN,
              finSeen : BOOLEAN, headerDone : BOOLEAN, statusValid : BOOLEAN,
              truncated : BOOLEAN, remote : Hosts \union {None}, port : 0 .. MaxCalls,
              next : 0 .. SeqMod - 1, headerLen : 0 .. MaxHeader, body : Seq(Units), total : Nat]
  /\ Len(tcp.body) <= MaxBody
  /\ call \in [name : Calls \union {None},
               pc : {"idle", "offer", "ack", "send", "arp", "open", "pong", "answer", "connect", "body"},
               then : {None, "pong", "answer", "connect", "body"}, host : Hosts \union {None},
               retries : 0 .. MaxRetries, ok : BOOLEAN]
  /\ clock \in 0 .. MaxCalls

\* net_init
Init ==
  /\ cfg = [ip |-> NoLease, opts |-> NoLease, configured |-> FALSE]
  /\ arp = None
  /\ dhcp = NoDhcp
  /\ dns = NoDns
  /\ ping = NoPing
  /\ tcp = NoTcp
  /\ call = NoCall
  /\ clock = 0
  /\ sent = {}

-----------------------------------------------------------------------------
(* The calls.                                                              *)

Start(name) == call.pc = "idle" /\ name \in Calls /\ clock < MaxCalls /\ clock' = clock + 1

\* The call goes on at pc; it sends its next packet and goes on at then.
Goto(pc)   == call' = [call EXCEPT !.pc = pc, !.then = None]
Send(then) == call' = [call EXCEPT !.pc = "send", !.then = then]

Return(ok) == call' = [call EXCEPT !.pc = "idle", !.then = None, !.ok = ok]

\* net_dhcp_request up to its first loop; the broadcast may fail to go out.
Dhcp ==
  /\ Start("dhcp")
  /\ dhcp' = [NoDhcp EXCEPT !.xid = clock', !.waitOffer = TRUE]
  /\ \/ /\ call' = [NoCall EXCEPT !.name = "dhcp"]
        /\ UNCHANGED sent
     \/ /\ call' = [NoCall EXCEPT !.name = "dhcp", !.pc = "offer"]
        /\ sent' = sent \union {[kind |-> "discover", id |-> clock']}
  /\ UNCHANGED <<cfg, arp, dns, ping, tcp>>

\* The end of the loop that waits for an offer: without a complete one, or when
\* the request fails to go out, the call fails.
LeaveOffer ==
  /\ call.pc = "offer"
  /\ \/ Return(FALSE) /\ UNCHANGED sent
     \/ /\ ~dhcp.waitOffer /\ dhcp.offered # NoLease /\ dhcp.server # 0
        /\ Goto("ack")
        /\ sent' = sent \union {[kind |-> "request", id |-> dhcp.xid, ip |-> dhcp.offered,
                                 server |-> dhcp.server]}
  /\ UNCHANGED <<cfg, arp, dhcp, dns, ping, tcp, clock>>

\* The end of the loop that waits for the acknowledgement.
LeaveAck ==
  /\ call.pc = "ack"
  /\ Return(cfg.configured)
  /\ UNCHANGED <<cfg, arp, dhcp, dns, ping, tcp, clock, sent>>

\* net_ping and net_resolve_ipv4 up to their packet.  The early returns leave
\* everything as it is, but for the call.
Ping(h) ==
  /\ Start("ping")
  /\ IF cfg.ip = NoLease
     THEN call' = [NoCall EXCEPT !.name = "ping"] /\ UNCHANGED ping
     ELSE /\ call' = [NoCall EXCEPT !.name = "ping", !.host = h, !.pc = "send", !.then = "pong"]
          /\ ping' = [waiting |-> TRUE, got |-> FALSE, seq |-> ping.seq + 1, answer |-> None]
  /\ UNCHANGED <<cfg, arp, dhcp, dns, tcp, sent>>

\* What the text given to the calls may be: a URL parse_http_url refuses, an
\* address for net_parse_ipv4, a name dns_encode_name refuses, or a good name.
Forms(name) == {"address", "badName", "name"} \union IF name = "http" THEN {"badUrl"} ELSE {}

\* net_http_get resolves the name first, after its checks.
Resolve(name, h, form) ==
  LET done(ok) == call' = [NoCall EXCEPT !.name = name, !.host = h, !.ok = ok]
      query(on) == [waiting |-> on, got |-> FALSE, xid |-> clock', result |-> None]
  IN /\ Start(name)
     /\ \/ /\ form = "badUrl" \/ cfg.ip = NoLease \/ cfg.opts = NoLease
           /\ done(FALSE) /\ UNCHANGED dns
        \/ /\ form # "badUrl" /\ cfg.ip # NoLease /\ cfg.opts # NoLease
           /\ \/ /\ form = "address"
                 /\ UNCHANGED dns
                 /\ IF name = "dns" THEN done(TRUE)
                    ELSE call' = [NoCall EXCEPT !.name = name, !.host = h, !.pc = "open"]
              \/ form = "badName" /\ dns' = query(FALSE) /\ done(FALSE)
              \/ /\ form = "name"
                 /\ dns' = query(TRUE)
                 /\ call' = [NoCall EXCEPT !.name = name, !.host = h, !.pc = "send", !.then = "answer"]
     /\ UNCHANGED <<cfg, arp, dhcp, ping, tcp, sent>>

\* The end of the loop of net_ping.
LeavePing ==
  /\ call.pc = "pong"
  /\ Return(ping.got)
  /\ ping' = IF ping.got THEN ping ELSE [ping EXCEPT !.waiting = FALSE]
  /\ UNCHANGED <<cfg, arp, dhcp, dns, tcp, clock, sent>>

\* Mutant: the loop has no time limit.
LeaveDnsWaits ==
  /\ call.pc = "answer"
  /\ ~dns.waiting
  /\ IF ~dns.got THEN Return(FALSE)
     ELSE IF call.name = "dns" THEN Return(TRUE)
     ELSE call' = [call EXCEPT !.pc = "open", !.host = dns.result]
  /\ UNCHANGED <<cfg, arp, dhcp, dns, ping, tcp, clock, sent>>

\* The end of the loop of net_resolve_ipv4; a query that timed out stays open.
LeaveDns ==
  /\ call.pc = "answer"
  /\ IF ~dns.got THEN Return(FALSE)
     ELSE IF call.name = "dns" THEN Return(TRUE)
     ELSE call' = [call EXCEPT !.pc = "open", !.host = dns.result]
  /\ UNCHANGED <<cfg, arp, dhcp, dns, ping, tcp, clock, sent>>

\* net_http_get prepares the connection.
Open ==
  /\ call.pc = "open"
  /\ tcp' = [NoTcp EXCEPT !.active = TRUE, !.connecting = TRUE, !.remote = call.host, !.port = clock]
  /\ Send("connect")
  /\ UNCHANGED <<cfg, arp, dhcp, dns, ping, clock, sent>>

\* The packet a call is about to send.
Packet ==
  [kind |-> CASE call.then = "pong" -> "echo" [] call.then = "answer" -> "query"
              [] call.then = "connect" -> "syn" [] call.then = "body" -> "get",
   id   |-> IF call.then = "pong" THEN ping.seq ELSE clock,
   host |-> call.host,
   from |-> cfg.ip]

\* resolve_target_mac: who the packet goes to.
Route == IF cfg.opts # NoLease THEN "gateway" ELSE call.host

\* send_ipv4_packet; the first look at the cache.
Transmit ==
  /\ call.pc \in {"send", "arp"}
  /\ arp = Route
  /\ sent' = sent \union {Packet}
  /\ Goto(call.then)
  /\ UNCHANGED <<cfg, arp, dhcp, dns, ping, tcp, clock>>

\* An ARP request is sent; the loop polls the card.
AskNeighbour ==
  /\ call.pc = "send"
  /\ arp # Route
  /\ call' = [call EXCEPT !.pc = "arp"]
  /\ UNCHANGED <<cfg, arp, dhcp, dns, ping, tcp, clock, sent>>

\* The neighbour does not answer in time, or the card does not take the frame.
SendFails ==
  /\ call.pc \in {"send", "arp"}
  /\ Return(FALSE)
  /\ ping' = IF call.then = "pong" THEN [ping EXCEPT !.waiting = FALSE] ELSE ping
  /\ dns' = IF call.then = "answer" THEN [dns EXCEPT !.waiting = FALSE] ELSE dns
  /\ tcp' = IF call.then \in {"connect", "body"} THEN NoTcp ELSE tcp
  /\ UNCHANGED <<cfg, arp, dhcp, clock, sent>>

\* The SYN is sent again when half a second has passed.
RetrySyn ==
  /\ call.pc = "connect"
  /\ ~tcp.established /\ ~tcp.failed
  /\ call.retries < MaxRetries
  /\ call' = [call EXCEPT !.retries = @ + 1]
  /\ UNCHANGED <<cfg, arp, dhcp, dns, ping, tcp, clock, sent>>

\* The end of the loop that waits for the connection; then the request, which
\* may be too long for its buffer.
LeaveConnect ==
  /\ call.pc = "connect"
  /\ \/ tcp.established /\ Send("body") /\ UNCHANGED tcp
     \/ Return(FALSE) /\ tcp' = NoTcp
  /\ UNCHANGED <<cfg, arp, dhcp, dns, ping, clock, sent>>

\* The end of the loop that waits for the end of the answer.
LeaveBody ==
  /\ call.pc = "body"
  /\ Return(~tcp.failed /\ tcp.headerDone /\ tcp.statusValid)
  /\ tcp' = NoTcp
  /\ UNCHANGED <<cfg, arp, dhcp, dns, ping, clock, sent>>

-----------------------------------------------------------------------------
(* The handlers.  Each is one frame, taken from what the peers can have     *)
(* sent; handle_ipv4 drops what is not for the current address.            *)

ForUs(m) == cfg.ip = NoLease \/ cfg.ip = m.from

\* handle_arp: any neighbour may announce itself.
HandleArp(n) == arp' = n /\ UNCHANGED <<cfg, dhcp, dns, ping, tcp, call, clock, sent>>

\* Mutant: the transaction is not compared.
HandleDhcpAnyXid(type, xid, server, full) ==
  LET d == IF full THEN [dhcp EXCEPT !.opts = <<xid, server>>, !.server = server] ELSE dhcp
  IN /\ IF type = "offer" /\ d.waitOffer
        THEN /\ dhcp' = [d EXCEPT !.offered = <<xid, server>>, !.waitOffer = FALSE, !.waitAck = TRUE]
             /\ UNCHANGED cfg
        ELSE IF type = "ack" /\ d.waitAck
        THEN /\ dhcp' = [d EXCEPT !.waitAck = FALSE]
             /\ cfg' = [ip |-> <<xid, server>>, configured |-> TRUE,
                        opts |-> IF d.opts = NoLease THEN cfg.opts ELSE d.opts]
        ELSE dhcp' = d /\ UNCHANGED cfg
     /\ UNCHANGED <<arp, dns, ping, tcp, call, clock, sent>>

\* handle_dhcp of message type with transaction xid from a server, which may
\* leave out the options.
HandleDhcp(type, xid, server, full) ==
  LET d == IF full THEN [dhcp EXCEPT !.opts = <<xid, server>>, !.server = server] ELSE dhcp
  IN /\ xid = dhcp.xid
     /\ IF type = "offer" /\ d.waitOffer
        THEN /\ dhcp' = [d EXCEPT !.offered = <<xid, server>>, !.waitOffer = FALSE, !.waitAck = TRUE]
             /\ UNCHANGED cfg
        ELSE IF type = "ack" /\ d.waitAck
        THEN /\ dhcp' = [d EXCEPT !.waitAck = FALSE]
             /\ cfg' = [ip |-> <<xid, server>>, configured |-> TRUE,
                        opts |-> IF d.opts = NoLease THEN cfg.opts ELSE d.opts]
        ELSE dhcp' = d /\ UNCHANGED cfg
     /\ UNCHANGED <<arp, dns, ping, tcp, call, clock, sent>>

RecvDhcp ==
  \E m \in sent, full \in BOOLEAN :
    \/ m.kind = "discover" /\ \E s \in Servers : HandleDhcp("offer", m.id, s, full)
    \/ m.kind = "request" /\ m.ip = <<m.id, m.server>> /\ HandleDhcp("ack", m.id, m.server, full)

\* Mutant: the id of the query is not compared.
HandleDnsAnyId(m, found) ==
  /\ m.kind = "query" /\ ForUs(m)
  /\ dns.waiting
  /\ dns' = IF found THEN [dns EXCEPT !.waiting = FALSE, !.got = TRUE, !.result = m.host]
            ELSE [dns EXCEPT !.waiting = FALSE]
  /\ UNCHANGED <<cfg, arp, dhcp, ping, tcp, call, clock, sent>>

\* handle_dns: the answer has the address of the host, or none.
HandleDns(m, found) ==
  /\ m.kind = "query" /\ ForUs(m)
  /\ dns.waiting
  /\ m.id = dns.xid
  /\ dns' = IF found THEN [dns EXCEPT !.waiting = FALSE, !.got = TRUE, !.result = m.host]
            ELSE [dns EXCEPT !.waiting = FALSE]
  /\ UNCHANGED <<cfg, arp, dhcp, ping, tcp, call, clock, sent>>

\* handle_icmp: the reply to an echo request of ours.
HandlePong(m) ==
  /\ m.kind = "echo" /\ ForUs(m)
  /\ ping.waiting
  /\ m.id = ping.seq
  /\ ping' = [ping EXCEPT !.waiting = FALSE, !.got = TRUE, !.answer = m.host]
  /\ UNCHANGED <<cfg, arp, dhcp, dns, tcp, call, clock, sent>>

\* tcp_http_append_body
AppendBody(t, units) ==
  LET room == MaxBody - Len(t.body)
  IN [t EXCEPT !.total = @ + Len(units),
               !.body = @ \o SubSeq(units, 1, Min({room, Len(units)})),
               !.truncated = @ \/ Len(units) > room]

\* tcp_http_feed_data: up to the end of the header into the header buffer, the
\* rest to the body.
FeedData(t, units) ==
  LET end  == {i \in 1 .. Len(units) : units[i][2] = HeaderLen[t.remote]}
      used == IF end = {} THEN Len(units) ELSE Min(end)
  IN IF t.headerDone THEN AppendBody(t, units)
     ELSE IF t.headerLen + used > MaxHeader
     THEN [t EXCEPT !.headerLen = MaxHeader, !.failed = TRUE]
     ELSE IF end = {} THEN [t EXCEPT !.headerLen = @ + used]
     ELSE AppendBody([t EXCEPT !.headerLen = @ + used, !.headerDone = TRUE,
                               !.statusValid = t.remote \notin BadStatus],
                     SubSeq(units, used + 1, Len(units)))

Plus(seq, n) == (seq + n) % SeqMod

\* Mutant: a FIN counts although data before it is missing.
SegmentFinCounts(t, seq, units, fin) ==
  LET data == IF units # <<>> /\ seq = t.next
              THEN FeedData([t EXCEPT !.next = Plus(seq, Len(units))], units)
              ELSE t
  IN IF ~fin THEN data ELSE [data EXCEPT !.finSeen = TRUE, !.next = Plus(data.next, 1)]

\* The data and the FIN of a segment; what is out of order is dropped, but a FIN
\* is always noted.
Segment(t, seq, units, fin) ==
  LET data == IF units # <<>> /\ seq = t.next
              THEN FeedData([t EXCEPT !.next = Plus(seq, Len(units))], units)
              ELSE t
  IN IF ~fin THEN data
     ELSE [data EXCEPT !.finSeen = TRUE,
             !.next = IF Plus(seq, Len(units)) = data.next THEN Plus(data.next, 1) ELSE data.next]

\* Mutant: the local port is not compared.
HandleTcpAnyPort(m, segment) ==
  /\ m.kind \in {"syn", "get"} /\ ForUs(m)
  /\ tcp.active
  /\ m.host = tcp.remote
  /\ tcp' = segment
  /\ UNCHANGED <<cfg, arp, dhcp, dns, ping, call, clock, sent>>

\* handle_tcp of an answer to packet m of connection m.id.
HandleTcp(m, segment) ==
  /\ m.kind \in {"syn", "get"} /\ ForUs(m)
  /\ tcp.active
  /\ m.host = tcp.remote
  /\ m.id = tcp.port
  /\ tcp' = segment
  /\ UNCHANGED <<cfg, arp, dhcp, dns, ping, call, clock, sent>>

\* A server refuses or resets, accepts, or sends any piece of its answer again.
RecvTcp ==
  \E m \in sent :
    \/ HandleTcp(m, [tcp EXCEPT !.failed = TRUE])
    \/ /\ m.kind = "syn"
       /\ tcp.connecting
       /\ HandleTcp(m, [tcp EXCEPT !.next = Plus(Isn, 1), !.connecting = FALSE,
                                   !.established = TRUE])
    \/ /\ m.kind = "get"
       /\ tcp.established
       /\ LET length == HeaderLen[m.host] + BodyLen[m.host]
          IN \E i \in 0 .. length, j \in 0 .. length, fin \in BOOLEAN :
               /\ i <= j
               /\ i < j \/ fin
               /\ fin => j = length
               /\ HandleTcp(m, Segment(tcp, Plus(Isn, 1 + i), [k \in 1 .. j - i |-> <<m.id, i + k>>], fin))

\* Any frame may come as long as someone polls: a call that waits or the idle
\* task between calls.
Receive ==
  /\ call.pc \in {"idle", "offer", "ack", "arp", "pong", "answer", "connect", "body"}
  /\ \/ \E n \in Hosts \union {"gateway"} : HandleArp(n)
     \/ RecvDhcp
     \/ \E m \in sent : HandlePong(m) \/ \E found \in BOOLEAN : HandleDns(m, found)
     \/ RecvTcp

CallStep ==
  \/ LeaveOffer \/ LeaveAck \/ LeavePing \/ LeaveDns \/ Open
  \/ Transmit \/ AskNeighbour \/ SendFails \/ LeaveConnect \/ LeaveBody

Next ==
  \/ Dhcp
  \/ \E h \in Hosts :
       Ping(h) \/ \E name \in {"dns", "http"} : \E form \in Forms(name) : Resolve(name, h, form)
  \/ CallStep \/ RetrySyn
  \/ Receive

\* The timer runs while a call polls, so the time of every loop passes.
Spec == Init /\ [][Next]_vars /\ WF_vars(CallStep)

-----------------------------------------------------------------------------
(* Properties.                                                             *)

\* Whatever the network does to the packets, what net_http_get puts into the
\* caller's buffer is the beginning of the body the server sent on this
\* connection: nothing is missing, repeated or from an earlier connection,
\* and body_truncated says whether the buffer was too small for it.
BodyIsPrefix ==
  /\ Len(tcp.body) = Min({tcp.total, MaxBody})
  /\ \A i \in 1 .. Len(tcp.body) : tcp.body[i] = <<tcp.port, HeaderLen[tcp.remote] + i>>
  /\ tcp.truncated <=> tcp.total > MaxBody

\* handle_tcp acknowledges (seq_remote) exactly what it has kept, or the server
\* would never send the rest: every byte up to there is in the header or the
\* body, and the FIN is counted only when nothing before it is missing.
AckedIsKept ==
  tcp.established /\ ~tcp.failed =>
    LET kept == tcp.headerLen + tcp.total
    IN \/ tcp.next = Plus(Isn, 1 + kept)
       \/ /\ tcp.finSeen
          /\ kept = HeaderLen[tcp.remote] + BodyLen[tcp.remote]
          /\ tcp.next = Plus(Isn, 2 + kept)

\* A late answer to an earlier call is not taken for the answer to this one: a
\* ping that succeeds was answered by the host it went to, a name resolves to
\* its own address, and net_http_get connects to the host of its URL, although
\* neither handle_icmp nor handle_dns looks at the sender.
AnswerIsOwn ==
  /\ call.name = "ping" /\ ping.got => ping.answer = call.host
  /\ call.name \in {"dns", "http"} /\ dns.got /\ dns.xid = clock => dns.result = call.host

\* net.c takes an address only after it has requested that very address from
\* that server in the current exchange, also when several servers offer one
\* and answers to earlier exchanges are still under way.
LeaseWasRequested ==
  [][cfg'.ip # cfg.ip =>
       \E m \in sent : m.kind = "request" /\ m.id = dhcp.xid /\ m.ip = cfg'.ip]_vars

\* Every network call comes back, whoever does not answer.
CallsReturn == call.pc # "idle" ~> call.pc = "idle"

=============================================================================
