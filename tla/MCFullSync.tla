----------------------------- MODULE MCFullSync -----------------------------
(***************************************************************************)
(* Scenes for FullSync: one host with a VM and a container, in a NetBox    *)
(* that another source and operators use too.                              *)
(***************************************************************************)
EXTENDS FullSync

MCKeyOrder == <<"d0", "net0", "n1", "100", "101", "200">>
MCNodeOf == [k \in {"n1", "n1:100", "n1:100:eth0"} |-> "n1"]

Nic(bridge, mac, ips) ==
    [key |-> "net0", name |-> "eth0", bridge |-> bridge, mac |-> mac, ips |-> ips, vrf |-> 0,
     obs |-> {}, macc |-> {}, ipc |-> {}]
Guest(kind, key, name, res, nics, disks, owner) ==
    [inst |-> "A", owner |-> owner, kind |-> kind, key |-> key, node |-> "n1", name |-> name, res |-> res,
     val |-> "", note |-> "", disks |-> disks, nics |-> nics]
Host(owner, hw, guests) ==
    [inst |-> "A", owner |-> owner, key |-> "n1", name |-> "node", val |-> "v", mgmt |-> "m", hw |-> hw,
     ifs |-> <<[name |-> "br0", val |-> "x", addrs |-> <<<<"m", 24>>>>]>>, guests |-> guests]
Disk == <<[key |-> "d0", name |-> "scsi0", size |-> 2500000]>>

Vm(res, ips, owner) == Guest("qemu", "100", "web", res, <<Nic("br0", "M1", ips)>>, Disk, owner)
Ct(ips) == Guest("lxc", "200", "db", 1, <<Nic("br0", "M2", ips)>>, <<>>, FALSE)
A == <<"a", 24>>
B == <<"b", 24>>
Bare_ == Guest("qemu", "101", "job", 1, <<>>, <<>>, FALSE)
Collected == <<Host(FALSE, {}, <<Vm(1, <<A>>, FALSE), Bare_, Ct(<<B>>)>>)>>
Renamed == [Vm(2, <<<<"c", 24>>>>, FALSE) EXCEPT !.name = "www"]
Recollected == <<Host(FALSE, {}, <<Renamed>>)>>
Shared == <<Host(FALSE, {}, <<Vm(1, <<A>>, FALSE), Ct(<<<<"a", 16>>>>)>>)>>
Legacy == <<Host(TRUE, {}, <<Vm(1, <<A>>, TRUE)>>)>>
Provider == <<Host(FALSE, {<<"uuid", "u">>}, <<Ct(<<B>>)>>)>>

Fields(ids) == [NoFields EXCEPT !.ids = ids]
OtherVm(name, ids) == [name |-> name, cluster |-> "c1", tenant |-> "", res |-> 1, disk |-> 0, note |-> "",
                       prim |-> 0, dev |-> 0, cf |-> Fields(ids)]
OtherDev == [name |-> "far", serial |-> "", site |-> "s1", cluster |-> "c1", spec |-> "t", prim |-> 0,
             cf |-> Fields({Identity("B", "host", "f")})]
Others == [NoObjects EXCEPT !.dev = (50 :> OtherDev),
                            !.vm = (50 :> OtherVm("mail", {Identity("B", "qemu", "9")})),
                            !.nic = (50 :> [vm |-> 50, name |-> "eth9", on |-> TRUE, pmac |-> 0,
                                            cf |-> Fields({Identity("B", "qemu-nic", "9:net0")})])]
WithLegacy ==
    [Others EXCEPT !.dev = (1 :> [OtherDev EXCEPT !.name = "old", !.cf = [Fields({LegacyIdentity("n1")}) EXCEPT !.misc = "kept"]]) @@ @,
                   !.vm = (1 :> [OtherVm("web", {LegacyIdentity("n1:100")}) EXCEPT !.cf.misc = "kept"]) @@ @]
WithProvider ==
    [Others EXCEPT !.dev = (51 :> [OtherDev EXCEPT !.name = "rented", !.cluster = "", !.prim = 51,
                                     !.cf = [Fields({}) EXCEPT !.refs = TRUE, !.own = {"primary_ip4_id", "site_id"},
                                                               !.sel = {<<"uuid", "u">>}]]) @@ @,
                   !.ip = (51 :> [addr |-> <<"p", 24>>, vrf |-> 0, at |-> Unassigned])]

Config(policy, rules, direct) ==
    [policy |-> policy, rules |-> rules, ruled |-> DOMAIN rules # {}, direct |-> direct]
MCScenes ==
    {[nb |-> Others, conf |-> Config("strict", <<>>, FALSE), invs |-> <<Collected, Collected>>],
     [nb |-> Others, conf |-> Config("strict", <<>>, FALSE), invs |-> <<Collected, Recollected>>],
     [nb |-> Others, conf |-> Config("strict", <<>>, FALSE), invs |-> <<Shared, Collected>>],
     [nb |-> Others, conf |-> Config("observe", <<"n1", "br0">> :> 5, FALSE), invs |-> <<Collected, Shared>>],
     [nb |-> WithLegacy, conf |-> Config("strict", <<>>, TRUE), invs |-> <<Legacy, Legacy>>],
     [nb |-> WithProvider, conf |-> Config("strict", <<>>, FALSE), invs |-> <<Provider, Provider>>]}

MCRecords ==
    {[ep |-> "ip", id |-> 60, obj |-> [addr |-> addr, vrf |-> 0, at |-> at]] :
        addr \in {A, <<"m", 24>>}, at \in {Unassigned, <<"nic", 50>>}}
      \cup {[ep |-> "mac", id |-> 60, obj |-> [addr |-> "M1", at |-> at]] : at \in {Unassigned, <<"nic", 50>>}}
      \cup {[ep |-> "vm", id |-> 60, obj |-> OtherVm("web", {})],
            [ep |-> "vm", id |-> 60, obj |-> OtherVm("web2", {Identity("A", "qemu", "100")})],
            [ep |-> "dev", id |-> 60, obj |-> [OtherDev EXCEPT !.name = "node", !.cf = NoFields]],
            [ep |-> "disk", id |-> 60, obj |-> [vm |-> 1, name |-> "scsi0", size |-> 1, ident |-> Identity("B", "d", "d")]]}
=============================================================================
