------------------------------ MODULE Network ------------------------------
(***************************************************************************)
(* The REST client beside the other users of the network: the socket, HTTP *)
(* and syslog clients, which talk to servers of their own, and the Wi-Fi   *)
(* manager.  They share nothing but the SDK: a behaviour is one of one of  *)
(* them, as active says.                                                   *)
(***************************************************************************)
EXTENDS Rest

CONSTANTS
    SendLengths, MaxSends, MaxPeers,                 \* of Socket, which has the other bounds of Rest
    Fetches, BUFFER_SIZE_MAX, Segments, MaxFailures, \* of HttpClient
    Ssids, ScanChunk, MaxAps, CHANGE_TO_STA, InfoPages, MaxPages, MaxEvents, \* of Wifi
    MaxMessages, MaxSettings, MaxTroubles            \* of Syslog

VARIABLES
    active,
    socketClient, socketNum, sLink, sLookup, told, sends, sSetups, peers,
    req, hLink, server, outcome, failures,
    stconf, apconf, station, softap, opmode, connectStatus, wifiState,
    reassTimer, resetTimer, scan, reply, trying, asked, pages, events,
    sl, host, gWifi, gLookup, inAir, sent, again, stalled, messages, settings, troubles

Sockets == INSTANCE Socket WITH MAX_SOCKET <- MAX_REST, Lengths <- SendLengths,
                               link <- sLink, lookup <- sLookup, setups <- sSetups
Http == INSTANCE HttpClient WITH Requests <- Fetches, link <- hLink
Station == INSTANCE Wifi WITH CHUNK <- ScanChunk, MaxRequests <- MaxPages, requests <- pages
Logger == INSTANCE Syslog WITH wifi <- gWifi, lookup <- gLookup

ASSUME ClientsAssumption ==
    /\ RestAssumption /\ Sockets!SocketAssumption /\ Http!HttpClientAssumption
    /\ Station!WifiAssumption /\ Logger!SyslogAssumption

sVars == <<socketClient, socketNum, sLink, sLookup, told, sends, sSetups, peers>>
hVars == <<req, hLink, server, outcome, failures>>
wVars == <<stconf, apconf, station, softap, opmode, connectStatus, wifiState,
           reassTimer, resetTimer, scan, reply, trying, asked, pages, events>>
gVars == <<sl, host, gWifi, gLookup, inAir, sent, again, stalled, messages, settings, troubles>>
netVars == <<active, vars, sVars, hVars, wVars, gVars>>

NetInit ==
    /\ active \in {"wifi", "rest", "socket", "http", "syslog"}
    /\ Init /\ Sockets!Init /\ Http!Init /\ Station!wifiInit /\ Logger!Init
    /\ active # "wifi" => stconf = Station!NoSsid
    /\ active # "syslog" => host = ""

NetNext ==
    /\ UNCHANGED active
    /\ \/ active = "rest" /\ Next /\ UNCHANGED <<sVars, hVars, wVars, gVars>>
       \/ active = "socket" /\ Sockets!Next /\ UNCHANGED <<vars, hVars, wVars, gVars>>
       \/ active = "http" /\ Http!Next /\ UNCHANGED <<vars, sVars, wVars, gVars>>
       \/ active = "wifi" /\ Station!Next /\ UNCHANGED <<vars, sVars, hVars, gVars>>
       \/ active = "syslog" /\ Logger!Next /\ UNCHANGED <<vars, sVars, hVars, wVars>>

\* The fairness of Wifi and of Syslog while they are active, and of HttpClient,
\* which can do nothing when it is not; the others promise nothing about the MCU.
NetSpec ==
    /\ NetInit /\ [][NetNext]_netVars
    /\ \A r \in Fetches : WF_hVars(Http!Progress(r))
    /\ WF_wVars(active = "wifi" /\ Station!resetTimerCb) /\ WF_wVars(active = "wifi" /\ Station!Awaited)
    /\ WF_gVars(active = "syslog" /\ Logger!TimerFires) /\ WF_gVars(active = "syslog" /\ Logger!Awaited)

\* What the MCU is told was sent has reached the peer (Socket.tla).
SentWhole == Sockets!SentWhole
\* A response is passed on as a whole or reported as a failure (HttpClient.tla).
WholeOrFailed == Http!WholeOrFailed
\* The user of a request is called back exactly once (HttpClient.tla).
CalledOnce == Http!CalledOnce
\* The module does not stay out of reach, without an address and without an AP (Wifi.tla).
Rescue == Station!Rescue
\* A complete list of networks has each place once, of one scan or of a scan and
\* later ones (Wifi.tla).
ListInOrder == Station!ListInOrder
\* A scan, and a reply with its results, comes to an end, with the exceptions
\* named there (Wifi.tla).
ScanEnds == Station!ScanEnds
\* As many log messages at most are lost as datagrams were sent twice (Syslog.tla).
LossBounded == Logger!LossBounded
\* What is logged is sent in the end, with the exceptions named there (Syslog.tla).
QueueDrains == Logger!QueueDrains
=============================================================================
