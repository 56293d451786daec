----------------------------- MODULE NetworkHost -----------------------------
(***************************************************************************)
(* What the appliance's network settings come down to on the machine: the  *)
(* addresses of eth0, the default route, /etc/resolv.conf and the file     *)
(* /tmp/networkstate.  Every value is abstracted to the scheme that put it *)
(* there, DHCP or a static configuration.  The operators are the effects   *)
(* of the commands that applyDHCP and applyStatic (tui.go) run.            *)
(***************************************************************************)

Schemes == {"DHCP", "Static"}

HostState ==
    [ link       : {"down", "up"},                   \* eth0 itself
      addrs      : SUBSET Schemes,                   \* addresses on eth0
      gateway    : Schemes \cup {"none"},            \* default route
      resolvConf : Schemes \cup {"none"},            \* name servers
      stateFile  : Schemes \cup {"absent", "empty"} ]

\* A machine that has just booted: nothing configured, no state file in /tmp.
FreshHost ==
    [link |-> "down", addrs |-> {}, gateway |-> "none", resolvConf |-> "none",
     stateFile |-> "absent"]

\* "ip link set eth0 up", and netlink.LinkSetUp of main().
LinkUp(h) == [h EXCEPT !.link = "up"]

\* "ip addr flush dev eth0": the kernel drops the routes with the last address.
AddrFlush(h) == [h EXCEPT !.addrs = {}, !.gateway = "none"]

\* "ip addr add": the static address joins whatever is on the interface.
AddrAdd(h) == [h EXCEPT !.addrs = @ \cup {"Static"}]

\* "ip route replace default via": takes the place of any default route.
RouteReplace(h) == [h EXCEPT !.gateway = "Static"]

\* udhcpc's script may deconfigure the interface when udhcpc starts, and set the link
\* up; the script is not part of the repository.
ClientStarted(h) == {h, AddrFlush(h), LinkUp(AddrFlush(h))}

\* What udhcpc configures when it obtains a lease: address, route, resolv.conf.
\* Whether the address replaces or joins those on eth0 is up to the script too.
LeaseBound(h) ==
    { [h EXCEPT !.addrs = a, !.gateway = "DHCP", !.resolvConf = "DHCP"] :
          a \in {{"DHCP"}, h.addrs \cup {"DHCP"}} }

\* os.WriteFile truncates before it writes: a write that fails leaves the file
\* as it was or empty.
WriteResolvConf(h)       == [h EXCEPT !.resolvConf = "Static"]
FailedResolvConf(h)      == {h, [h EXCEPT !.resolvConf = "none"]}
WriteStateFile(h, s)     == [h EXCEPT !.stateFile = s]
FailedStateFile(h)       == {h, [h EXCEPT !.stateFile = "empty"]}

\* The "IP Address Type" line of the System Information pane.
IPAddressType(h) ==
    IF h.addrs = {} \/ h.stateFile = "absent" THEN "Unknown" ELSE h.stateFile

\* Address, route and name servers all come from scheme s alone.
ConfiguredBy(h, s) == h.addrs = {s} /\ h.gateway = s /\ h.resolvConf = s
==============================================================================
