------------------------------- MODULE NetIface -------------------------------
(***************************************************************************)
(* The interface lookup of src/net/net.c: ipv4_interface_from_ip fills a   *)
(* record of the caller's with what getifaddrs says of the interface that  *)
(* has an address, and then asks the system again, by name, for the        *)
(* hardware address: Linux for the file /sys/class/net/<name>/address, the *)
(* BSDs for a list in a buffer that the code allocates.  Between any two   *)
(* of these queries the interfaces may change.                             *)
(*                                                                         *)
(* A character of a hardware address is the value of a hex digit, or one   *)
(* of COLON, LF and WEIRD, which is any other of the 128 that hex_map has  *)
(* a place for.  A caller's text with a character outside 0 .. 127 makes   *)
(* mac_from_hex read outside hex_map (net.c:63); such texts are assumed    *)
(* away by CallsAssumption, and the system gives none.  Names and          *)
(* addresses are values; the system gives no name that is empty or does    *)
(* not fit the record (lines 311 and 95), so these two refusals are left   *)
(* out, as are the messages.                                               *)
(***************************************************************************)
EXTENDS Integers, Sequences, SequencesExt

CONSTANTS
    NULL,
    Systems,    (* what the machine's interfaces may be                      *)
    IPs,        (* what a caller looks up                                    *)
    Presets,    (* the flags it may set in a record before a lookup          *)
    Texts,      (* hardware addresses it parses itself: groups of characters,*)
                (* which are no colons                                       *)
    MaxCalls    (* bounds the calls of a behaviour                           *)

COLON == 16
LF    == 17
WEIRD == 18

Octet   == 0 .. 255
GARBAGE == -1       (* a byte nobody has written                             *)

Flags == {"addr", "netmask", "broadcast"}

SizeMod == 1073741824   (* bounds a size_t here: 2 ^ 30                      *)

Entry == [name : STRING, family : {"inet", "other", "none"},
          addr : STRING, netmask : STRING \cup {NULL}, broadcast : STRING \cup {NULL},
          can_broadcast : BOOLEAN]

ASSUME SystemsAssumption ==
    \A s \in Systems : /\ \A k \in DOMAIN s.list : s.list[k] \in Entry
                       /\ \A n \in DOMAIN s.link : /\ s.link[n] \in Seq(Octet)
                                                   /\ 3 * Len(s.link[n]) < SizeMod
                       /\ \A k \in DOMAIN s.list : s.list[k].name \in DOMAIN s.link

(* The caller's texts are made of the characters of hex_map alone.         *)
ASSUME CallsAssumption ==
    /\ Presets \subseteq SUBSET Flags
    /\ Texts \subseteq Seq(Seq((0 .. WEIRD) \ {COLON})) \ {<<>>}
    /\ MaxCalls \in Nat

VARIABLES
    linux,      (* which of the two branches was compiled                    *)
    calls,      (* how many calls the caller has made                        *)
    system,     (* the interfaces: the list getifaddrs gives, and the        *)
                (* hardware address of each name                             *)
    pc,         (* the query the lookup is at                                *)
    list,       (* ifaddrs: the copy of the list                             *)
    buf,        (* is the buffer for sysctl allocated?                       *)
    addr,       (* what is looked for                                        *)
    ifa,        (* the entry found in the list; kept when the list is freed  *)
    iface,      (* the caller's record                                       *)
    result,
    before,     (* the record as it was when the lookup was called           *)
    moved,      (* has the system changed since the list was taken?          *)
    typed,      (* the last address parsed for the caller, group by group    *)
    undefined   (* has a NULL been dereferenced?                             *)

vars == <<linux, calls, system, pc, list, buf, addr, ifa, iface, result, before,
          moved, typed, undefined>>

-----------------------------------------------------------------------------
(* Hardware addresses *)

Is_hex(c) == c \in 0 .. 15

Byte_stored(s) ==
    [s EXCEPT !.mac[s.i + 1] = s.value, !.i = @ + 1, !.value = 0]

(* Wrong: a byte may have any number of digits.                             *)
Char_read_wrong(s, c, delim) ==
    IF s.ret # 0 \/ s.i = 6 THEN s
    ELSE IF c = delim THEN Byte_stored(s)
    ELSE IF ~ Is_hex(c) THEN [s EXCEPT !.ret = -1]
    ELSE [s EXCEPT !.value = (16 * @ + c) % 256]

(* One character: the value of the byte so far, or its end.                 *)
Char_read(s, c, delim) ==
    IF s.ret # 0 \/ s.i = 6 THEN s
    ELSE IF c = delim THEN Byte_stored(s)
    ELSE IF ~ Is_hex(c) THEN [s EXCEPT !.ret = -1]
    ELSE IF 16 * s.value + c > 255 THEN [s EXCEPT !.ret = -2]
    ELSE [s EXCEPT !.value = 16 * @ + c]

Length_fits(len) == len >= 11 /\ len <= 17

(* What is in mac afterwards, and what is returned.                         *)
mac_from_hex(mac, hex, len, delim) ==
    LET begin   == [mac |-> mac, i |-> 0, value |-> 0, ret |-> 0]
        read[k \in 0 .. len] ==
            IF k = 0 THEN begin ELSE Char_read(read[k - 1], hex[k], delim)
        s       == read[len]
    IN  IF ~ Length_fits(len) THEN [begin EXCEPT !.ret = -1]
        ELSE IF s.ret = 0 /\ s.i < 6 /\ hex[len] # delim THEN Byte_stored(s)
        ELSE s

(* A line of the address file: two digits a byte, colons, and a LF.         *)
AddressFile(bytes) ==
    IF bytes = <<>> THEN <<LF>>
    ELSE [k \in 1 .. 3 * Len(bytes) |->
            LET b == bytes[(k + 2) \div 3]
            IN  CASE k % 3 = 1 -> b \div 16
                  [] k % 3 = 2 -> b % 16
                  [] OTHER     -> IF k = 3 * Len(bytes) THEN LF ELSE COLON]

-----------------------------------------------------------------------------
(* The lookup: ipv4_interface_from_ip *)

Does(action_pc, next_pc) == pc = action_pc /\ pc' = next_pc

Found_kept == UNCHANGED <<list, ifa, iface>>

Caller_kept == UNCHANGED <<linux, calls, addr, before, typed>>

System_kept == UNCHANGED <<system, moved>>

(* The caller may take the record as it was left, or a new one with the     *)
(* flags set as test_net.c:12 sets them.  inet_addr gives INADDR_NONE for a *)
(* text that is no address; that is a value like any other here.            *)
Zeroed(flags) ==
    [name |-> "", addr |-> "", netmask |-> "", broadcast |-> "",
     mac |-> [k \in 1 .. 6 |-> 0], flags |-> flags]

Lookup(ip, given) ==
    /\ Does("idle", "list")
    /\ calls < MaxCalls
    /\ calls' = calls + 1
    /\ addr' = ip
    /\ iface' = given /\ before' = given
    /\ result' = 0 /\ ifa' = NULL
    /\ UNCHANGED <<linux, system, list, buf, moved, typed, undefined>>

ListFails ==
    /\ Does("list", "idle")
    /\ result' = -1
    /\ Found_kept /\ Caller_kept /\ System_kept
    /\ UNCHANGED <<buf, undefined>>

ListTaken ==
    /\ Does("list", "filter")
    /\ list' = system.list /\ moved' = FALSE
    /\ Caller_kept
    /\ UNCHANGED <<system, buf, ifa, iface, result, undefined>>

(* Wrong: the address is not looked at.                                     *)
comp_ifaddrs_addr_wrong(e) == IF e.family = "inet" THEN 0 ELSE 1

(* 0 when the entry has the address.                                        *)
comp_ifaddrs_addr(e) == IF e.family = "inet" /\ e.addr = addr THEN 0 ELSE 1

(* The entries the filter looks at: up to the first that has the address.   *)
Looked_at ==
    {k \in DOMAIN list : \A j \in 1 .. k - 1 : comp_ifaddrs_addr(list[j]) # 0}

Has_address(k) == k \in Looked_at /\ comp_ifaddrs_addr(list[k]) = 0

(* An entry without an address: comp_ifaddrs_addr dereferences ifa_addr.    *)
Filter_undefined ==
    /\ Does("filter", "crashed")
    /\ \E k \in Looked_at : list[k].family = "none"
    /\ undefined' = TRUE
    /\ Found_kept /\ Caller_kept /\ System_kept
    /\ UNCHANGED <<buf, result>>

Filter_defined == \A k \in Looked_at : list[k].family # "none"

(* No interface has the address; result stays 0.                            *)
NotFound ==
    /\ Does("filter", "cleanup")
    /\ Filter_defined
    /\ \A k \in DOMAIN list : ~ Has_address(k)
    /\ Found_kept /\ Caller_kept /\ System_kept
    /\ UNCHANGED <<buf, result, undefined>>

(* Linux keeps the other end of a point-to-point link in ifa_broadaddr.     *)
Has_broadcast(e) == (linux => e.can_broadcast) /\ e.broadcast # NULL

Obtained(e) ==
    {"addr"} \cup (IF e.netmask # NULL THEN {"netmask"} ELSE {})
             \cup (IF Has_broadcast(e) THEN {"broadcast"} ELSE {})

(* Wrong: the flags are set for what is asked, not for what there is.       *)
Filled_wrong(e) ==
    [iface EXCEPT !.name      = e.name,
                  !.addr      = e.addr,
                  !.netmask   = IF e.netmask # NULL THEN e.netmask ELSE @,
                  !.broadcast = IF Has_broadcast(e) THEN e.broadcast ELSE @,
                  !.flags     = Flags]

(* The record with what the entry says; what it does not say stays.         *)
Filled(e) ==
    [iface EXCEPT !.name      = e.name,
                  !.addr      = e.addr,
                  !.netmask   = IF e.netmask # NULL THEN e.netmask ELSE @,
                  !.broadcast = IF Has_broadcast(e) THEN e.broadcast ELSE @,
                  !.flags     = @ \cup Obtained(e)]

Found ==
    /\ Does("filter", "mac")
    /\ Filter_defined
    /\ \E k \in DOMAIN list :
          /\ Has_address(k)
          /\ ifa'   = list[k]
          /\ iface' = Filled(list[k])
    /\ Caller_kept /\ System_kept
    /\ UNCHANGED <<list, buf, result, undefined>>

(* freeifaddrs, which every way out after getifaddrs passes.                *)
Cleanup ==
    /\ Does("cleanup", "idle")
    /\ list' = NULL
    /\ Caller_kept /\ System_kept
    /\ UNCHANGED <<buf, ifa, iface, result, undefined>>

-----------------------------------------------------------------------------
(* The hardware address: mac_from_if *)

Known == iface.name \in DOMAIN system.link

Link == system.link[iface.name]

Mac_failed(code) ==
    /\ result' = code
    /\ Found_kept /\ Caller_kept /\ System_kept
    /\ UNCHANGED undefined

Mac_read(mac, ret) ==
    /\ iface'  = [iface EXCEPT !.mac = mac]
    /\ result' = ret
    /\ Caller_kept /\ System_kept
    /\ UNCHANGED <<list, ifa, undefined>>

(* On Linux *)

NoFile ==
    /\ linux /\ ~ Known
    /\ Does("mac", "cleanup")
    /\ Mac_failed(1)
    /\ UNCHANGED buf

(* Wrong: the LF is left in.                                                *)
Without_LF_wrong(read_size) == read_size

(* read_size - 1, as a size_t.                                              *)
Without_LF(read_size) == (read_size - 1) % SizeMod

(* The file is read, or the interface has gone since it was opened and      *)
(* nothing is.                                                              *)
FileRead ==
    /\ linux /\ Known
    /\ Does("mac", "cleanup")
    /\ \E text \in {AddressFile(Link), <<>>} :
          LET hex == mac_from_hex(iface.mac, text, Without_LF(Len(text)), COLON)
          IN  Mac_read(hex.mac, hex.ret)
    /\ UNCHANGED buf

(* On the BSDs: the index of the name, the room the list needs, the buffer, *)
(* the list                                                                 *)

NoIndex ==
    /\ ~ linux /\ ~ Known
    /\ Does("mac", "cleanup")
    /\ Mac_failed(2)
    /\ UNCHANGED buf

Index ==
    /\ ~ linux /\ Known
    /\ Does("mac", "room")
    /\ Caller_kept /\ System_kept
    /\ UNCHANGED <<list, buf, ifa, iface, result, undefined>>

(* sysctl fails, or has nothing to say of a name that has gone, or malloc   *)
(* fails.                                                                   *)
NoRoom ==
    /\ Does("room", "cleanup")
    /\ \E code \in {3, 4, 5} : (code = 4 <=> ~ Known) /\ Mac_failed(code)
    /\ UNCHANGED buf

Room ==
    /\ Known
    /\ Does("room", "copy")
    /\ buf' = TRUE
    /\ Caller_kept /\ System_kept
    /\ UNCHANGED <<list, ifa, iface, result, undefined>>

(* Wrong: the buffer is freed only when the list has been copied.           *)
CopyFails_wrong ==
    /\ Does("copy", "cleanup")
    /\ Mac_failed(6)
    /\ UNCHANGED buf

CopyFails ==
    /\ Does("copy", "cleanup")
    /\ Mac_failed(6)
    /\ buf' = FALSE

(* Wrong: all bytes that the address has are copied.                        *)
Copied_wrong(bytes) == bytes

(* Six bytes are copied, however many the address has.                      *)
Copied(bytes) == [k \in 1 .. 6 |-> IF k <= Len(bytes) THEN bytes[k] ELSE GARBAGE]

(* When the name has gone meanwhile, it is whatever is in the buffer.       *)
Copy ==
    /\ Does("copy", "cleanup")
    /\ Mac_read(Copied(IF Known THEN Link ELSE <<>>), 0)
    /\ buf' = FALSE

mac_from_if == NoFile \/ FileRead \/ NoIndex \/ Index \/ NoRoom \/ Room \/ CopyFails \/ Copy

-----------------------------------------------------------------------------
(* The caller parses an address that it has as groups between colons, with  *)
(* an array that holds other bytes.  In the instance it does nothing else.  *)
Joined(groups) ==
    LET text[k \in 1 .. Len(groups)] ==
            IF k = 1 THEN groups[1] ELSE text[k - 1] \o <<COLON>> \o groups[k]
    IN  text[Len(groups)]

Parse(groups) ==
    /\ pc = "idle"
    /\ calls = 0 /\ calls' = MaxCalls
    /\ LET text == Joined(groups)
           hex  == mac_from_hex([k \in 1 .. 6 |-> GARBAGE], text, Len(text), COLON)
       IN  typed' = [groups |-> groups, mac |-> hex.mac, ret |-> hex.ret]
    /\ UNCHANGED <<linux, system, pc, list, buf, addr, ifa, iface, result, before,
                   moved, undefined>>

(* Interfaces come, go, and get other addresses.                            *)
Change ==
    /\ typed = NULL
    /\ system' \in Systems \ {system}
    /\ moved' = TRUE
    /\ UNCHANGED <<linux, calls, pc, list, buf, addr, ifa, iface, result, before,
                   typed, undefined>>

Init ==
    /\ linux \in BOOLEAN
    /\ calls = 0
    /\ system \in Systems
    /\ pc = "idle" /\ list = NULL /\ buf = FALSE
    /\ addr = "" /\ ifa = NULL
    /\ iface = Zeroed({}) /\ before = Zeroed({})
    /\ result = 0
    /\ moved = FALSE
    /\ typed = NULL
    /\ undefined = FALSE

Next ==
    \/ \E ip \in IPs, given \in {Zeroed(f) : f \in Presets} \cup {iface} :
          Lookup(ip, given)
    \/ ListFails \/ ListTaken
    \/ Filter_undefined \/ NotFound \/ Found
    \/ mac_from_if
    \/ Cleanup
    \/ \E groups \in Texts : Parse(groups)
    \/ Change

Spec == Init /\ [][Next]_vars

-----------------------------------------------------------------------------
(* Properties *)

Bytes == [1 .. 6 -> Octet \cup {GARBAGE}]

(* The state has its types.                                                 *)
TypeOK ==
    /\ linux \in BOOLEAN /\ buf \in BOOLEAN /\ moved \in BOOLEAN /\ undefined \in BOOLEAN
    /\ system \in Systems
    /\ pc \in {"idle", "list", "filter", "mac", "room", "copy", "cleanup", "crashed"}
    /\ list \in {s.list : s \in Systems} \cup {NULL}
    /\ ifa \in Entry \cup {NULL}
    /\ \A r \in {iface, before} : r.mac \in Bytes /\ r.flags \subseteq Flags
    /\ result \in -2 .. 6

(* Whatever fails on the way, at the end nothing of what getifaddrs and     *)
(* mac_from_if have allocated is left (net.c:145, :154, :335).              *)
AllFreed == (pc \in {"idle", "cleanup"} => ~ buf) /\ (pc = "idle" => list = NULL)

(* When a lookup has found the address, the record is that of one interface,*)
(* as it is when the lookup returns: the addresses were found by ip and the *)
(* hardware address by name (net.c:329), and they belong together if no     *)
(* interface has changed in between and the hardware address is of 6 bytes. *)
OneInterface ==
    pc = "idle" /\ result = 0 /\ ifa # NULL /\ ~ moved =>
        /\ \E k \in DOMAIN system.list : system.list[k] = ifa
        /\ iface.name = ifa.name /\ iface.addr = addr
        /\ Len(system.link[iface.name]) = 6 => iface.mac = system.link[iface.name]

(* In a record given without flags, a flag says that the field is that of   *)
(* the interface, and without the flag the field is as it was; and so also  *)
(* when the hardware address is not obtained (net.c:317-332).               *)
FlagsTell ==
    ifa # NULL /\ before.flags = {} =>
        \A f \in Flags : iface[f] = IF f \in iface.flags THEN ifa[f] ELSE before[f]

(* A lookup that fails leaves the hardware address alone: no address file   *)
(* is read in part before it is refused, and an empty one has a length that *)
(* is refused as well (net.c:104).                                          *)
MacKept == pc = "idle" /\ result # 0 => iface.mac = before.mac

(* Of an address given as groups, the value in base 16 of each of the first *)
(* six is stored, in order, up to the first that is no byte; its error is   *)
(* returned, and 0 if there is none; a last group without digits is none.   *)
Value(g) ==
    LET v[k \in 0 .. Len(g)] == IF k = 0 THEN 0 ELSE 16 * v[k - 1] + g[k]
    IN  v[Len(g)]

IsByte(g) == (\A k \in DOMAIN g : Is_hex(g[k])) /\ Value(g) \in Octet

ReadsGroups ==
    typed # NULL =>
        LET groups == typed.groups
            n      == Len(groups)
            last   == IF n <= 6 /\ groups[n] = <<>> THEN n - 1 ELSE IF n < 6 THEN n ELSE 6
            bad    == {k \in 1 .. last : ~ IsByte(groups[k])}
            read   == {k \in 1 .. last : \A j \in bad : k < j}
            first  == groups[Cardinality(read) + 1]
        IN  IF ~ Length_fits(Len(Joined(groups)))
            THEN typed.ret = -1 /\ \A k \in 1 .. 6 : typed.mac[k] = GARBAGE
            ELSE /\ \A k \in 1 .. 6 :
                       typed.mac[k] = IF k \in read THEN Value(groups[k]) ELSE GARBAGE
                 /\ bad = {} <=> typed.ret = 0
                 /\ typed.ret = -2 =>
                       \E k \in DOMAIN first : Value(SubSeq(first, 1, k)) > 255

(* net.c:293: the flags determine what is a successful call.  A lookup that *)
(* returns 0 has obtained what the caller's flags ask for.                  *)
AskedObtained ==
    pc = "idle" /\ result = 0 => \/ before.flags = {}
                                 \/ ifa # NULL /\ before.flags \subseteq Obtained(ifa)

(* net.c:50: 0 is returned on success: then the hardware address is whole.  *)
MacWhole ==
    pc = "idle" /\ result = 0 /\ ifa # NULL /\ ~ moved /\ linux =>
        \A k \in 1 .. 6 : /\ k \in DOMAIN system.link[iface.name]
                          /\ iface.mac[k] = system.link[iface.name][k]
=============================================================================
