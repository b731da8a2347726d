----------------------------- MODULE WifiEvents -----------------------------
(***************************************************************************)
(* Wi-Fi events and the services: app/web/wifi_events.c, the part of       *)
(* Set_WiFi (app/web/wifi.c) that starts and stops the station, and the    *)
(* time client they start (Sntp).                                          *)
(*                                                                         *)
(* The SDK calls wifi_handle_event_cb when it has changed the state that   *)
(* the handler then reads: an event and its handler are one step.          *)
(***************************************************************************)
EXTENDS Sntp

CONSTANTS MaxClients,  \* stations of the soft-AP at a time
          MaxClose,    \* how often the time client is switched off
          Tries,       \* COUNT_RESCONN_ST
          Cfgs         \* settings to choose from, see Config

\* memory: there may be none for a server, a pcb, a datagram; dns: the resolver may have
\* no server or no room; lost: the station may lose the access point.
Faults == {"memory", "dns", "lost"}

Config == [mode : {"STATION", "SOFTAP", "STATIONAP"},  \* wificonfig.b.mode
           wait : 0 .. 2,     \* wificonfig.st.reconn_timeout; 2 is any time from 2 s on
           sntp : BOOLEAN,    \* syscfg.cfg.b.sntp_ena at first
           cdns : BOOLEAN,    \* syscfg.cfg.b.cdns_ena
           ntp : BOOLEAN,     \* does DHCP tell the address of a time server?
           toggles : BOOLEAN, \* does anybody change settings?
           faults : SUBSET Faults]

ASSUME WifiAssumption ==
  /\ Cfgs \subseteq Config
  /\ MaxClients \in Nat /\ MaxClose \in Nat /\ Tries \in Nat \ {0}

VARIABLES cfg,       \* the settings: chosen once
          wifi,      \* the SDK's state and the counters of wifi_events.c
          services,  \* which servers run
          ena        \* syscfg.cfg.b.sntp_ena, and how often it was cleared

vars == <<cfg, wifi, services, ena, sntp, lwip>>

\* cs: wifi_station_get_connect_status, "FAILED" for all codes of failure;
\* num: wifi_softap_get_station_num; auto: wifi_station_get_auto_connect;
\* count, flg: st_reconn_count (up to Tries), st_reconn_flg; timer: is st_disconn_timer
\* armed?  asleep: flg_wifi_sleep_enable, with the mode NULL_MODE.
Wifi == [cs : {"IDLE", "CONNECTING", "FAILED", "GOT_IP"}, num : 0 .. MaxClients,
         auto : BOOLEAN, count : 0 .. Tries, flg : BOOLEAN, timer : BOOLEAN,
         asleep : BOOLEAN]

\* flag: flg_open_all_service; ports: the UART bridge and Modbus; cdns: pcb_cdns
Services == [flag : BOOLEAN, web : BOOLEAN, ports : BOOLEAN, cdns : BOOLEAN]

NoServices == [flag |-> FALSE, web |-> FALSE, ports |-> FALSE, cdns |-> FALSE]

HasStation == cfg.mode # "SOFTAP" /\ ~wifi.asleep
Starts == IF "memory" \in cfg.faults THEN BOOLEAN ELSE {TRUE}

(***************************** the functions *******************************)
StationReconnectOff(w) == [w EXCEPT !.count = 0, !.flg = FALSE, !.timer = FALSE]

WifiStationConnect(w) == [w EXCEPT !.cs = "CONNECTING"]
WifiStationDisconnect(w) == [w EXCEPT !.cs = "IDLE"]

CloseAllService(v) ==
  IF v.flag THEN [v EXCEPT !.flag = FALSE, !.web = FALSE, !.ports = FALSE] ELSE v

\* The ports are opened if they are not, the web server when flg asks for it or all was
\* closed; each may fail: p, w: do they start?
Opened(v, flg, p, w) ==
  [v EXCEPT !.flag = TRUE, !.ports = @ \/ p, !.web = @ \/ (w /\ (flg = 0 \/ ~v.flag))]
OpenAllService(v, flg) == {Opened(v, flg, p, w) : p \in Starts, w \in Starts}

\* With them the time client, if the time is not known.
StartClient ==
  IF ena.on /\ ~sntp.time THEN \E m \in Starts : SntpBecomes(SntpInits(SntpNow, m))
  ELSE UNCHANGED sntpVars

\* WiFi_go_to_sleep, when there is nothing but the station
GivenUp(w) ==
  [WifiStationDisconnect(w) EXCEPT !.timer = @ \/ cfg.wait > 1,
                                   !.asleep = cfg.mode = "STATION"]

\* After so many failures in a row the station is stopped, for a time or (wait = 0) for
\* good; wait = 1 leaves it to the SDK.
StationDisconnected(w) ==
  LET u == [w EXCEPT !.count = IF @ < Tries THEN @ + 1 ELSE @]
  IN IF cfg.wait # 1 /\ u.count >= Tries /\ u.auto THEN GivenUp(u) ELSE u

\* Mutant: forgets the clients of the soft-AP.
UnservedAlways(w, v) == CloseAllService(v)

\* Nobody is left to serve when the station is gone and the soft-AP has no clients.
Unserved(w, v) == IF w.num = 0 THEN CloseAllService(v) ELSE v

\* Mutant: does not remember that it was time.
StationConnectTimerForgets(w) ==
  IF w.count # 0 /\ w.auto /\ w.num = 0 THEN WifiStationConnect([w EXCEPT !.count = 0]) ELSE w

\* While the soft-AP has clients the station waits for them to leave, as looking for an
\* access point would disturb them.
StationConnectTimer(w) ==
  CASE w.count = 0 \/ ~w.auto -> w
    [] w.count # 0 /\ w.auto /\ w.num = 0 -> WifiStationConnect([w EXCEPT !.count = 0])
    [] OTHER -> [w EXCEPT !.flg = TRUE]

(******************************* the steps *********************************)
Init ==
  /\ cfg \in Cfgs
  /\ wifi = [cs |-> IF cfg.mode = "SOFTAP" THEN "IDLE" ELSE "CONNECTING", num |-> 0,
             auto |-> TRUE, count |-> 0, flg |-> FALSE, timer |-> FALSE, asleep |-> FALSE]
  /\ services = NoServices
  /\ ena = [on |-> cfg.sntp, closed |-> 0]
  /\ SntpInit

\* EVENT_STAMODE_DISCONNECTED: an attempt has failed or the access point is lost.  The
\* SDK goes on trying, until it is told to stop.
StaDisconnected ==
  /\ \/ wifi.cs = "CONNECTING"
     \/ wifi.cs = "GOT_IP" /\ "lost" \in cfg.faults
  /\ \E cs \in {"CONNECTING", "FAILED"} :
       LET w == StationDisconnected([wifi EXCEPT !.cs = cs])
       IN wifi' = w /\ services' = Unserved(w, services)
  /\ UNCHANGED <<cfg, ena, sntp, lwip>>

Retry ==
  /\ wifi.cs = "FAILED"
  /\ wifi' = WifiStationConnect(wifi)
  /\ UNCHANGED <<cfg, services, ena, sntp, lwip>>

\* EVENT_STAMODE_CONNECTED and EVENT_STAMODE_AUTHMODE_CHANGE
StaConnected ==
  /\ wifi.cs \in {"CONNECTING", "GOT_IP"}
  /\ wifi' = StationReconnectOff(wifi)
  /\ UNCHANGED <<cfg, services, ena, sntp, lwip>>

\* EVENT_STAMODE_GOT_IP
StaGotIp ==
  /\ wifi.cs = "CONNECTING"
  /\ wifi' = [StationReconnectOff(wifi) EXCEPT !.cs = "GOT_IP"]
  /\ services' \in OpenAllService(services, IF wifi.num = 0 THEN 0 ELSE 1)
  /\ StartClient
  /\ UNCHANGED <<cfg, ena>>

\* EVENT_SOFTAPMODE_STACONNECTED
ApStaConnected ==
  /\ cfg.mode # "STATION" /\ wifi.num < MaxClients
  /\ wifi' = [wifi EXCEPT !.num = @ + 1]
  /\ LET first == wifi'.num = 1 /\ wifi.cs \notin {"GOT_IP", "CONNECTING"}
     IN \E v \in OpenAllService(services, IF first THEN 0 ELSE 1), d \in Starts :
          services' = [v EXCEPT !.cdns = @ \/ (cfg.cdns /\ d)]
  /\ StartClient
  /\ UNCHANGED <<cfg, ena>>

\* EVENT_SOFTAPMODE_STADISCONNECTED: after the last one nobody is served, unless by the
\* station, and the station may look for its access point again.
ApStaDisconnected ==
  /\ wifi.num > 0
  /\ LET w == [wifi EXCEPT !.num = @ - 1]
         v == IF w.num = 0 THEN [services EXCEPT !.cdns = FALSE] ELSE services
         alone == w.num = 0 /\ w.cs \notin {"CONNECTING", "GOT_IP"}
     IN /\ services' = IF alone THEN CloseAllService(v) ELSE v
        /\ wifi' = IF alone /\ w.flg /\ HasStation /\ w.auto
                   THEN WifiStationConnect(StationReconnectOff(w)) ELSE w
  /\ UNCHANGED <<cfg, ena, sntp, lwip>>

\* st_disconn_timer
StTimer ==
  /\ wifi.timer
  /\ wifi' = StationConnectTimer([wifi EXCEPT !.timer = FALSE, !.asleep = FALSE])
  /\ UNCHANGED <<cfg, services, ena, sntp, lwip>>

\* Only who is connected can change a setting.
Reached == wifi.cs = "GOT_IP" \/ wifi.num > 0

\* wifi_st_aucn from the web server: Set_WiFi starts or stops the station.  Stopping a
\* station that is connected is an event as well.
SetAutoConnect ==
  /\ Reached /\ cfg.toggles /\ HasStation
  /\ LET w == StationReconnectOff(wifi)
         u == WifiStationDisconnect(w)
     IN IF ~wifi.auto
        THEN wifi' = [WifiStationConnect(w) EXCEPT !.auto = TRUE] /\ UNCHANGED services
        ELSE IF wifi.cs = "GOT_IP"
        THEN wifi' = [StationDisconnected(u) EXCEPT !.auto = FALSE]
             /\ services' = Unserved(u, services)
        ELSE wifi' = [u EXCEPT !.auto = FALSE] /\ UNCHANGED services
  /\ UNCHANGED <<cfg, ena, sntp, lwip>>

\* sys_sntp from the web server
SetSntp ==
  /\ Reached /\ cfg.toggles
  /\ IF ena.on
     THEN /\ ena.closed < MaxClose
          /\ ena' = [on |-> FALSE, closed |-> ena.closed + 1]
          /\ SntpBecomes(SntpClose(SntpNow))
     ELSE /\ ena' = [ena EXCEPT !.on = TRUE]
          /\ \E m \in Starts : SntpBecomes(SntpInits(SntpNow, m))
  /\ UNCHANGED <<cfg, wifi, services>>

\* The chip restarts: app_init_wifi connects the station.
Restart ==
  /\ Fatal
  /\ wifi' = [cs |-> IF cfg.mode = "SOFTAP" THEN "IDLE" ELSE "CONNECTING", num |-> 0,
              auto |-> TRUE, count |-> 0, flg |-> FALSE, timer |-> FALSE, asleep |-> FALSE]
  /\ services' = NoServices
  /\ ena' = [ena EXCEPT !.on = cfg.sntp]
  /\ UNCHANGED cfg

\* The time client by itself
SntpTimeout ==
  \E h \in Handlers, m \in Starts :
    \E free \in IF "dns" \in cfg.faults THEN BOOLEAN ELSE {lwip.lookups < DnsTable} :
      Timeout(h, cfg.ntp, free, m)
SntpFound == \E f \in BOOLEAN, m \in Starts : Found(f, m)
SntpOther == (\E ok \in BOOLEAN : Stray(ok)) \/ Lose

SntpSteps == SntpTimeout \/ SntpFound \/ Answer \/ SntpOther

Next ==
  \/ StaDisconnected \/ Retry \/ StaConnected \/ StaGotIp
  \/ ApStaConnected \/ ApStaDisconnected \/ StTimer
  \/ SetAutoConnect \/ SetSntp \/ Restart
  \/ SntpSteps /\ UNCHANGED <<cfg, wifi, services, ena>>

Spec == Init /\ [][Next]_vars

\* Timers run out and lookups end; of many requests the server's name is found once, there
\* is memory once and one is answered.
FairSpec ==
  /\ Spec
  /\ \A h \in Handlers :
       SF_sntpVars(Timeout(h, cfg.ntp, lwip.lookups < DnsTable, TRUE)
                   /\ UNCHANGED <<cfg, wifi, services, ena>>)
  /\ SF_sntpVars(Found(TRUE, TRUE) /\ UNCHANGED <<cfg, wifi, services, ena>>)
  /\ SF_sntpVars(Answer /\ UNCHANGED <<cfg, wifi, services, ena>>)

(****************************** properties *********************************)
TypeOK == /\ SntpTypeOK
          /\ cfg \in Cfgs /\ wifi \in Wifi /\ services \in Services
          /\ ena \in [on : BOOLEAN, closed : 0 .. MaxClose]

\* Whoever can reach the module finds the services open; without station and clients they
\* are closed, to save power, and closed means that no server is left.  The resolver that
\* sends everybody to the module runs only for clients of the soft-AP.
ServicesOpen ==
  /\ Reached => services.flag
  /\ (Reached /\ "memory" \notin cfg.faults) => (services.web /\ services.ports)
  /\ services.flag => (Reached \/ wifi.cs = "CONNECTING")
  /\ (services.web \/ services.ports) => services.flag
  /\ services.cdns => wifi.num > 0

\* A station that is to connect by itself and may try again is never forgotten: the SDK is
\* at it, or the timer runs, or the last client of the soft-AP to leave will start it.
StillTrying ==
  (cfg.mode # "SOFTAP" /\ wifi.auto /\ cfg.wait # 0) =>
    \/ wifi.cs # "IDLE"
    \/ wifi.timer
    \/ wifi.flg /\ wifi.num > 0

\* sys_untimeout "only works as expected if there is only one timeout calling 'handler'":
\* here there may be more, from packets that come during a lookup, but they do not pile
\* up: there is never more pending than the resolver's table holds, and one.
Bounded == ena.closed = 0 => Pending <= DnsTable + 1

\* A client that has been started knows the time in the end, or is stopped.
TimeComes == sntp.on ~> (sntp.time \/ ~sntp.on)
=============================================================================
