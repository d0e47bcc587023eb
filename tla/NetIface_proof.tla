----------------------------- MODULE NetIface_proof -----------------------------
(* Theorems about NetIface, for whatever interfaces the machine has, however *)
(* they change between two queries, and any number of lookups.               *)
EXTENDS NetIface, DataInduction, FiniteSetTheorems

Fields == {"name", "addr", "netmask", "broadcast", "mac", "flags"}

(* The buffer is there only while the list is copied into it, and the copy  *)
(* of the list of interfaces only between getifaddrs and freeifaddrs.       *)
Held == (pc # "copy" => ~ buf) /\ (pc \in {"idle", "list"} => list = NULL)

(* Until the address is found the record is as it was given.                *)
Untouched == pc \in {"list", "filter"} => ifa = NULL /\ iface = before

(* All that is said of the record; it has its fields.                       *)
Told == DOMAIN iface = Fields /\ Untouched /\ FlagsTell

IInv == Held /\ Told

-----------------------------------------------------------------------------
LEMMA InitInv == Init => IInv
  BY DEF Init, IInv, Held, Told, Untouched, FlagsTell, Zeroed, Fields

(* The buffer and the list *)

LEMMA StepHeld == Held /\ [Next]_vars => Held'
  <1> SUFFICES ASSUME Held, [Next]_vars PROVE Held'
    OBVIOUS
  <1>1. ASSUME NEW ip \in IPs, NEW given, Lookup(ip, given) PROVE Held'
    BY <1>1 DEF Held, Lookup, Does
  <1>2. CASE ListFails \/ ListTaken
    BY <1>2 DEF Held, ListFails, ListTaken, Does, Found_kept
  <1>3. CASE Filter_undefined \/ NotFound \/ Found
    BY <1>3 DEF Held, Filter_undefined, NotFound, Found, Does, Found_kept
  <1>4. CASE NoFile \/ FileRead
    BY <1>4 DEF Held, NoFile, FileRead, Does, Mac_failed, Mac_read, Found_kept
  <1>5. CASE NoIndex \/ Index \/ NoRoom \/ Room
    BY <1>5 DEF Held, NoIndex, Index, NoRoom, Room, Does, Mac_failed, Found_kept
  <1>6. CASE CopyFails \/ Copy
    BY <1>6 DEF Held, CopyFails, Copy, Does, Mac_failed, Mac_read, Found_kept
  <1>7. CASE Cleanup
    BY <1>7 DEF Held, Cleanup, Does
  <1>8. ASSUME NEW groups \in Texts, Parse(groups) PROVE Held'
    BY <1>8 DEF Held, Parse
  <1>9. CASE Change \/ UNCHANGED vars
    BY <1>9 DEF Held, Change, vars
  <1> QED
    BY <1>1, <1>2, <1>3, <1>4, <1>5, <1>6, <1>7, <1>8, <1>9 DEF Next, mac_from_if

-----------------------------------------------------------------------------
(* The record *)

(* A step that leaves the record and what was found alone, and does not go  *)
(* back before the search.                                                  *)
LEMMA RecordKept ==
    ASSUME Told, UNCHANGED <<ifa, iface, before>>,
           pc' \in {"list", "filter"} => pc \in {"list", "filter"}
    PROVE  Told'
  BY DEF Told, Untouched, FlagsTell

(* The hardware address has no flag.                                        *)
LEMMA MacHasNoFlag ==
    ASSUME Told, NEW mac, iface' = [iface EXCEPT !.mac = mac],
           UNCHANGED <<ifa, before>>, pc' \notin {"list", "filter"}
    PROVE  Told'
  <1>1. DOMAIN iface' = Fields /\ \A f \in Fields \ {"mac"} : iface'[f] = iface[f]
    BY DEF Told
  <1>2. Flags \subseteq Fields \ {"mac"} /\ iface'.flags = iface.flags
    BY <1>1 DEF Flags, Fields
  <1>3. FlagsTell'
    BY <1>1, <1>2 DEF Told, FlagsTell
  <1> QED BY <1>1, <1>3 DEF Told, Untouched

(* What the entry says of the interface is in the record and flagged, what  *)
(* it does not say is not.                                                  *)
LEMMA FillTells ==
    ASSUME Told, Found
    PROVE  Told'
  <1>1. PICK e : ifa' = e /\ iface' = Filled(e)
    BY DEF Found
  <1>2. before' = before /\ iface = before /\ pc' = "mac"
    BY DEF Found, Told, Untouched, Does, Caller_kept
  <1>3. /\ DOMAIN iface' = Fields
        /\ iface'.addr = e.addr
        /\ iface'.netmask = IF e.netmask # NULL THEN e.netmask ELSE iface.netmask
        /\ iface'.broadcast = IF Has_broadcast(e) THEN e.broadcast ELSE iface.broadcast
        /\ iface'.flags = iface.flags \cup Obtained(e)
    BY <1>1 DEF Told, Filled, Fields
  <1>4. /\ "addr" \in Obtained(e)
        /\ "netmask" \in Obtained(e) <=> e.netmask # NULL
        /\ "broadcast" \in Obtained(e) <=> Has_broadcast(e)
    BY DEF Obtained
  <1>5. FlagsTell'
    <2> SUFFICES ASSUME before.flags = {}, NEW f \in Flags
                 PROVE  iface'[f] = IF f \in iface'.flags THEN e[f] ELSE before[f]
      BY <1>1, <1>2 DEF FlagsTell
    <2>1. iface'.flags = Obtained(e)
      BY <1>2, <1>3
    <2>2. CASE f = "addr"
      BY <1>3, <1>4, <2>1, <2>2
    <2>3. CASE f = "netmask"
      BY <1>2, <1>3, <1>4, <2>1, <2>3
    <2>4. CASE f = "broadcast"
      BY <1>2, <1>3, <1>4, <2>1, <2>4
    <2> QED BY <2>2, <2>3, <2>4 DEF Flags
  <1> QED BY <1>2, <1>3, <1>5 DEF Told, Untouched

LEMMA StepTold == Told /\ [Next]_vars => Told'
  <1> SUFFICES ASSUME Told, [Next]_vars PROVE Told'
    OBVIOUS
  <1>1. ASSUME NEW ip \in IPs, NEW given \in {Zeroed(f) : f \in Presets} \cup {iface},
               Lookup(ip, given)
        PROVE  Told'
    <2>1. DOMAIN given = Fields
      BY DEF Zeroed, Fields, Told
    <2> QED BY <1>1, <2>1 DEF Told, Untouched, FlagsTell, Lookup, Does
  <1>2. CASE ListFails \/ ListTaken
    BY <1>2, RecordKept DEF ListFails, ListTaken, Does, Found_kept, Caller_kept
  <1>3. CASE Filter_undefined \/ NotFound
    BY <1>3, RecordKept DEF Filter_undefined, NotFound, Does, Found_kept, Caller_kept
  <1>4. CASE Found
    BY <1>4, FillTells
  <1>5. CASE NoFile \/ NoIndex \/ NoRoom \/ CopyFails
    BY <1>5, RecordKept
    DEF NoFile, NoIndex, NoRoom, CopyFails, Does, Mac_failed, Found_kept, Caller_kept
  <1>6. CASE FileRead \/ Copy
    BY <1>6, MacHasNoFlag DEF FileRead, Copy, Does, Mac_read, Caller_kept
  <1>7. CASE Index \/ Room \/ Cleanup
    BY <1>7, RecordKept DEF Index, Room, Cleanup, Does, Caller_kept
  <1>8. ASSUME NEW groups \in Texts, Parse(groups) PROVE Told'
    BY <1>8, RecordKept DEF Parse
  <1>9. CASE Change \/ UNCHANGED vars
    BY <1>9, RecordKept DEF Change, vars
  <1> QED
    BY <1>1, <1>2, <1>3, <1>4, <1>5, <1>6, <1>7, <1>8, <1>9 DEF Next, mac_from_if

LEMMA Invariant == Spec => []IInv
  BY InitInv, StepHeld, StepTold, PTL DEF Spec, IInv

(* Whichever query fails, the lookup leaves neither the copy of the list of *)
(* interfaces nor the buffer of mac_from_if behind (net.c:154, :335).       *)
THEOREM LookupFreesAll == Spec => []AllFreed
  <1>1. IInv => AllFreed
    BY DEF IInv, Held, AllFreed
  <1> QED BY <1>1, Invariant, PTL

(* The flags of the record say which of its fields are the interface's,     *)
(* also when the search for the hardware address then fails                 *)
(* (net.c:317-332).                                                         *)
THEOREM FlagsAreTrue == Spec => []FlagsTell
  <1>1. IInv => FlagsTell
    BY DEF IInv, Told
  <1> QED BY <1>1, Invariant, PTL

-----------------------------------------------------------------------------
(* Reading a hardware address *)

(* Where the loop of mac_from_hex can be.                                   *)
Reading == [mac : Bytes, i : 0 .. 6, value : Octet, ret : {0, -1, -2}]

Begin(mac) == [mac |-> mac, i |-> 0, value |-> 0, ret |-> 0]

Reads(read, mac, hex, len, delim) ==
    read = [k \in 0 .. len |->
              IF k = 0 THEN Begin(mac) ELSE Char_read(read[k - 1], hex[k], delim)]

Read(mac, hex, len, delim) ==
    (CHOOSE read : Reads(read, mac, hex, len, delim))[len]

LEMMA MacUnfolds ==
    ASSUME NEW mac, NEW hex, NEW len, NEW delim
    PROVE  mac_from_hex(mac, hex, len, delim) =
             LET s == Read(mac, hex, len, delim)
             IN  IF ~ Length_fits(len) THEN [Begin(mac) EXCEPT !.ret = -1]
                 ELSE IF s.ret = 0 /\ s.i < 6 /\ hex[len] # delim THEN Byte_stored(s)
                 ELSE s
  BY DEF mac_from_hex, Read, Reads, Begin

(* A byte as two digits. *)
LEMMA OctetFacts ==
    ASSUME NEW v \in Octet
    PROVE  /\ v \div 16 \in 0 .. 15 /\ v % 16 \in 0 .. 15 /\ 16 * (v \div 16) + (v % 16) = v
           /\ ~ (v > 255) /\ v \div 16 \in Octet /\ 0 \in Octet
  BY DEF Octet

LEMMA DigitFacts ==
    ASSUME NEW c \in 0 .. 15
    PROVE  Is_hex(c) /\ c # COLON /\ 16 * 0 + c = c /\ ~ (c > 255)
  BY DEF Is_hex, COLON

LEMMA StoredType ==
    ASSUME NEW s \in Reading, s.i < 6
    PROVE  /\ Byte_stored(s) \in Reading
           /\ Byte_stored(s) = [mac |-> [s.mac EXCEPT ![s.i + 1] = s.value], i |-> s.i + 1,
                                value |-> 0, ret |-> s.ret]
  <1> DEFINE mac == [s.mac EXCEPT ![s.i + 1] = s.value]
  <1>1. Byte_stored(s) = [mac |-> mac, i |-> s.i + 1, value |-> 0, ret |-> s.ret]
    <2>1. s = [mac |-> s.mac, i |-> s.i, value |-> s.value, ret |-> s.ret]
      BY DEF Reading
    <2>2. DOMAIN s = {"mac", "i", "value", "ret"}
      BY <2>1
    <2>3. /\ DOMAIN Byte_stored(s) = {"mac", "i", "value", "ret"}
          /\ Byte_stored(s).mac = mac /\ Byte_stored(s).i = s.i + 1
          /\ Byte_stored(s).value = 0 /\ Byte_stored(s).ret = s.ret
      BY <2>2 DEF Byte_stored
    <2>4. Byte_stored(s) = [x \in {"mac", "i", "value", "ret"} |-> Byte_stored(s)[x]]
      BY <2>2 DEF Byte_stored
    <2> HIDE DEF mac
    <2> QED BY <2>3, <2>4
  <1>2. s.mac \in Bytes /\ s.i + 1 \in 1 .. 6 /\ s.i + 1 \in 0 .. 6 /\ s.value \in Octet
    BY DEF Reading
  <1>3. mac \in Bytes
    BY <1>2 DEF Bytes
  <1>4. 0 \in Octet /\ s.ret \in {0, -1, -2}
    BY DEF Octet, Reading
  <1> HIDE DEF mac
  <1>5. [mac |-> mac, i |-> s.i + 1, value |-> 0, ret |-> s.ret] \in Reading
    BY <1>2, <1>3, <1>4 DEF Reading
  <1> QED BY <1>1, <1>5 DEF mac

LEMMA CharType ==
    ASSUME NEW s \in Reading, NEW c, NEW delim
    PROVE  Char_read(s, c, delim) \in Reading
  <1>1. CASE s.ret # 0 \/ s.i = 6
    BY <1>1 DEF Char_read
  <1>2. CASE s.ret = 0 /\ s.i # 6 /\ c = delim
    <2>1. s.i < 6
      BY <1>2 DEF Reading
    <2> QED BY <1>2, <2>1, StoredType DEF Char_read
  <1>3. CASE s.ret = 0 /\ s.i # 6 /\ c # delim /\ ~ Is_hex(c)
    BY <1>3 DEF Char_read, Reading
  <1>4. CASE s.ret = 0 /\ s.i # 6 /\ c # delim /\ Is_hex(c)
    BY <1>4 DEF Char_read, Reading, Is_hex, Octet
  <1> QED BY <1>1, <1>2, <1>3, <1>4

(* A solution of the loop's equation is what is read, if it stays typed.    *)
LEMMA ReadIs ==
    ASSUME NEW mac, NEW hex, NEW len \in Nat, NEW delim, NEW g,
           Reads(g, mac, hex, len, delim)
    PROVE  Read(mac, hex, len, delim) = g[len]
  <1> DEFINE h == CHOOSE read : Reads(read, mac, hex, len, delim)
             A == {k \in 1 .. len + 1 : h[k - 1] = g[k - 1]}
  <1>1. Reads(h, mac, hex, len, delim)
    OBVIOUS
  <1> HIDE DEF h
  <1>2. /\ h[0] = g[0]
        /\ \A k \in 1 .. len : /\ h[k] = Char_read(h[k - 1], hex[k], delim)
                               /\ g[k] = Char_read(g[k - 1], hex[k], delim)
    BY <1>1 DEF Reads
  <1>3. 1 \in A
    BY <1>2
  <1>4. ASSUME NEW k \in 1 .. (len + 1) - 1, k \in A PROVE k + 1 \in A
    <2>1. k \in 1 .. len /\ k + 1 \in 1 .. len + 1 /\ (k + 1) - 1 = k /\ h[k - 1] = g[k - 1]
      BY <1>4
    <2>2. h[k] = g[k]
      BY <1>2, <2>1
    <2> QED BY <2>1, <2>2
  <1> HIDE DEF A
  <1>5. 1 .. len + 1 \subseteq A
    BY <1>3, <1>4, IntervalInduction
  <1>6. len + 1 \in A /\ (len + 1) - 1 = len
    BY <1>5
  <1> QED BY <1>6 DEF A, Read, h

LEMMA ReadType ==
    ASSUME NEW mac \in Bytes, NEW hex, NEW len \in Nat, NEW delim
    PROVE  Read(mac, hex, len, delim) \in Reading
  <1> DEFINE n == len + 1
             step == [q \in (1 .. n) \X Reading |-> Char_read(q[2], hex[q[1]], delim)]
             b == Begin(mac)
  <1>1. b \in Reading
    BY DEF Begin, Reading, Octet
  <1>2. step \in [(1 .. n) \X Reading -> Reading]
    BY CharType
  <1>3. PICK g \in [1 .. n -> Reading] : Recurs(g, n, b, step)
    <2>1. n \in Nat /\ n >= 1
      OBVIOUS
    <2> HIDE DEF b, step, n
    <2> QED BY <1>1, <1>2, <2>1, RecursionExists
  <1> DEFINE f == [k \in 0 .. len |-> g[k + 1]]
  <1>4. ASSUME NEW k \in 0 .. len
        PROVE  f[k] = IF k = 0 THEN b ELSE Char_read(f[k - 1], hex[k], delim)
    <2>1. CASE k = 0
      BY <1>3, <2>1 DEF Recurs
    <2>2. CASE k # 0
      <3>1. k \in 1 .. n - 1 /\ k \in 1 .. n /\ (k - 1) + 1 = k /\ k - 1 \in 0 .. len
        BY <2>2
      <3>2. f[k] = g[k + 1] /\ f[k - 1] = g[k] /\ g[k] \in Reading
        BY <3>1
      <3>3. g[k + 1] = step[<<k, g[k]>>]
        BY <1>3, <3>1 DEF Recurs
      <3>4. step[<<k, g[k]>>] = Char_read(g[k], hex[k], delim)
        BY <3>1, <3>2
      <3> HIDE DEF f, step
      <3> QED BY <2>2, <3>2, <3>3, <3>4
    <2> QED BY <2>1, <2>2
  <1>5. Reads(f, mac, hex, len, delim)
    <2> HIDE DEF b, step
    <2>1. f = [k \in 0 .. len |-> f[k]]
      OBVIOUS
    <2> HIDE DEF f
    <2> QED BY <1>4, <2>1 DEF Reads, b
  <1>6. f[len] \in Reading
    BY <1>3
  <1> HIDE DEF f
  <1> QED BY <1>5, <1>6, ReadIs

LEMMA MacType ==
    ASSUME NEW mac \in Bytes, NEW hex, NEW len \in Nat, NEW delim
    PROVE  mac_from_hex(mac, hex, len, delim) \in Reading
  <1> DEFINE s == Read(mac, hex, len, delim)
  <1>1. s \in Reading
    BY ReadType
  <1>2. [Begin(mac) EXCEPT !.ret = -1] \in Reading
    BY DEF Begin, Reading, Octet
  <1>3. s.ret = 0 /\ s.i < 6 => Byte_stored(s) \in Reading
    BY <1>1, StoredType
  <1> HIDE DEF s
  <1> QED BY <1>1, <1>2, <1>3, MacUnfolds DEF s

(* An address file is read back: what it says of 4 to 6 bytes goes into the *)
(* first of mac, and the rest of mac stays.                                 *)
Over(bytes, n, mac) == [j \in 1 .. 6 |-> IF j <= n THEN bytes[j] ELSE mac[j]]

(* The loop after k characters.                                             *)
FileAt(bytes, mac, k) ==
    [mac   |-> Over(bytes, k \div 3, mac),
     i     |-> k \div 3,
     value |-> IF k % 3 = 0 THEN 0
               ELSE IF k % 3 = 1 THEN bytes[k \div 3 + 1] \div 16
               ELSE bytes[k \div 3 + 1],
     ret   |-> 0]

LEMMA OverNext ==
    ASSUME NEW bytes \in Seq(Octet), NEW mac \in Bytes, NEW i \in 0 .. 5, i < Len(bytes)
    PROVE  /\ Over(bytes, i, mac) \in Bytes
           /\ [Over(bytes, i, mac) EXCEPT ![i + 1] = bytes[i + 1]] = Over(bytes, i + 1, mac)
  <1>1. \A j \in 1 .. Len(bytes) : bytes[j] \in Octet
    OBVIOUS
  <1>2. \A j \in 1 .. 6 : j <= i => j \in 1 .. Len(bytes)
    OBVIOUS
  <1>3. Over(bytes, i, mac) \in Bytes
    BY <1>1, <1>2 DEF Over, Bytes
  <1>4. \A j \in 1 .. 6 : j <= i + 1 <=> j <= i \/ j = i + 1
    OBVIOUS
  <1>5. [Over(bytes, i, mac) EXCEPT ![i + 1] = bytes[i + 1]] = Over(bytes, i + 1, mac)
    BY <1>4 DEF Over
  <1> QED BY <1>3, <1>5

LEMMA FileAtType ==
    ASSUME NEW bytes \in Seq(Octet), NEW mac \in Bytes, NEW k \in 0 .. 3 * Len(bytes) - 1,
           Len(bytes) <= 6
    PROVE  FileAt(bytes, mac, k) \in Reading
  <1>1. Len(bytes) \in Nat
    OBVIOUS
  <1>2. k \div 3 \in 0 .. 5 /\ k \div 3 < Len(bytes)
    BY <1>1
  <1>3. bytes[k \div 3 + 1] \in Octet
    <2>1. k \div 3 + 1 \in 1 .. Len(bytes)
      BY <1>1, <1>2
    <2> HIDE DEF Octet
    <2> QED BY <2>1
  <1>4. bytes[k \div 3 + 1] \div 16 \in Octet /\ 0 \in Octet
    BY <1>3, OctetFacts
  <1>5. Over(bytes, k \div 3, mac) \in Bytes
    BY <1>2, OverNext
  <1>6. k \div 3 \in 0 .. 6
    BY <1>2
  <1> QED BY <1>3, <1>4, <1>5, <1>6 DEF FileAt, Reading

LEMMA FileStep ==
    ASSUME NEW bytes \in Seq(Octet), NEW mac \in Bytes, NEW k \in 1 .. 3 * Len(bytes) - 1,
           Len(bytes) <= 6
    PROVE  Char_read(FileAt(bytes, mac, k - 1), AddressFile(bytes)[k], COLON)
             = FileAt(bytes, mac, k)
  <1> DEFINE n == Len(bytes)
             q == k \div 3
             r == k % 3
             s == FileAt(bytes, mac, k - 1)
             c == AddressFile(bytes)[k]
  <1>1. /\ n \in Nat /\ q \in 0 .. 5 /\ r \in 0 .. 2 /\ k = 3 * q + r /\ q < n
        /\ k - 1 \in 0 .. 3 * n - 1 /\ bytes # <<>> /\ k \in 1 .. 3 * n /\ k # 3 * n
    OBVIOUS
  <1>2. s \in Reading
    BY <1>1, FileAtType
  <1>3. c = LET b == bytes[(k + 2) \div 3]
            IN  CASE r = 1 -> b \div 16
                  [] r = 2 -> b % 16
                  [] OTHER -> COLON
    BY <1>1 DEF AddressFile
  <1>4. CASE r = 1
    <2>1. (k - 1) \div 3 = q /\ (k - 1) % 3 = 0 /\ (k + 2) \div 3 = q + 1
      BY <1>1, <1>4
    <2>2. c = bytes[q + 1] \div 16
      BY <1>3, <1>4, <2>1
    <2>3. bytes[q + 1] \in Octet
      BY <1>1
    <2>4. c \in 0 .. 15 /\ 16 * 0 + c = c /\ ~ (c > 255) /\ c # COLON
      <3>1. c \in 0 .. 15
        BY <2>2, <2>3, OctetFacts
      <3> HIDE DEF c
      <3> QED BY <3>1, DigitFacts
    <2>5. s = [mac |-> Over(bytes, q, mac), i |-> q, value |-> 0, ret |-> 0]
      BY <2>1 DEF FileAt
    <2>6. FileAt(bytes, mac, k) = [mac |-> Over(bytes, q, mac), i |-> q, value |-> c, ret |-> 0]
      BY <1>4, <2>2 DEF FileAt
    <2> HIDE DEF c, s, q
    <2>7. q # 6
      BY <1>1
    <2>8. Char_read(s, c, COLON) = [s EXCEPT !.value = 16 * 0 + c]
      BY <2>4, <2>5, <2>7 DEF Char_read, Is_hex
    <2> QED BY <2>4, <2>5, <2>6, <2>8 DEF s, c
  <1>5. CASE r = 2
    <2>1. (k - 1) \div 3 = q /\ (k - 1) % 3 = 1 /\ (k + 2) \div 3 = q + 1
      BY <1>1, <1>5
    <2> DEFINE v == bytes[q + 1]
    <2>2. c = v % 16
      BY <1>3, <1>5, <2>1
    <2>3. v \in Octet
      BY <1>1
    <2>5. s = [mac |-> Over(bytes, q, mac), i |-> q, value |-> v \div 16, ret |-> 0]
      BY <2>1 DEF FileAt
    <2>6. FileAt(bytes, mac, k) = [mac |-> Over(bytes, q, mac), i |-> q, value |-> v, ret |-> 0]
      BY <1>5 DEF FileAt
    <2> HIDE DEF v, c, s, q
    <2>4. c \in 0 .. 15 /\ 16 * (v \div 16) + c = v /\ ~ (v > 255) /\ c # COLON
      BY <2>2, <2>3, OctetFacts, DigitFacts
    <2>7. q # 6
      BY <1>1
    <2>8. Char_read(s, c, COLON) = [s EXCEPT !.value = 16 * (v \div 16) + c]
      BY <2>4, <2>5, <2>7 DEF Char_read, Is_hex
    <2> QED BY <2>4, <2>5, <2>6, <2>8 DEF s, c
  <1>6. CASE r = 0
    <2>1. (k - 1) \div 3 = q - 1 /\ (k - 1) % 3 = 2 /\ q - 1 \in 0 .. 5 /\ q - 1 < n /\ (q - 1) + 1 = q
      BY <1>1, <1>6
    <2>2. c = COLON
      BY <1>3, <1>6
    <2>3. s = [mac |-> Over(bytes, q - 1, mac), i |-> q - 1, value |-> bytes[q], ret |-> 0]
      BY <2>1 DEF FileAt
    <2>4. FileAt(bytes, mac, k) = [mac |-> Over(bytes, q, mac), i |-> q, value |-> 0, ret |-> 0]
      BY <1>6 DEF FileAt
    <2>5. [Over(bytes, q - 1, mac) EXCEPT ![q] = bytes[q]] = Over(bytes, q, mac)
      <3> DEFINE p == q - 1
      <3>1. p \in 0 .. 5 /\ p < Len(bytes) /\ p + 1 = q
        BY <2>1
      <3> HIDE DEF p
      <3>2. [Over(bytes, p, mac) EXCEPT ![p + 1] = bytes[p + 1]] = Over(bytes, p + 1, mac)
        BY <3>1, OverNext
      <3> HIDE DEF q
      <3> QED BY <3>1, <3>2 DEF p
    <2> HIDE DEF c, s, q
    <2>6. s.i < 6 /\ s.i # 6 /\ s.ret = 0
      BY <2>1, <2>3
    <2>7. Char_read(s, c, COLON) = Byte_stored(s)
      BY <2>2, <2>6 DEF Char_read
    <2>8. Byte_stored(s) = [mac |-> Over(bytes, q, mac), i |-> q, value |-> 0, ret |-> 0]
      BY <1>2, <2>1, <2>3, <2>5, <2>6, StoredType
    <2> QED BY <2>4, <2>7, <2>8 DEF s, c
  <1> QED BY <1>1, <1>4, <1>5, <1>6

LEMMA FileReadBack ==
    ASSUME NEW bytes \in Seq(Octet), NEW mac \in Bytes, Len(bytes) \in 4 .. 6
    PROVE  LET hex == mac_from_hex(mac, AddressFile(bytes), 3 * Len(bytes) - 1, COLON)
           IN  hex.ret = 0 /\ hex.mac = Over(bytes, Len(bytes), mac)
  <1> DEFINE n == Len(bytes)
             len == 3 * n - 1
             text == AddressFile(bytes)
             f == [k \in 0 .. len |-> FileAt(bytes, mac, k)]
             s == Read(mac, text, len, COLON)
  <1>1. n \in 4 .. 6 /\ len \in Nat /\ len >= 11 /\ len <= 17 /\ len \in 1 .. len /\ len \in 0 .. len
    <2>1. n \in 4 .. 6
      OBVIOUS
    <2> HIDE DEF n
    <2> QED BY <2>1
  <1>2. Reads(f, mac, text, len, COLON)
    <2>1. FileAt(bytes, mac, 0) = Begin(mac)
      <3>1. 0 \div 3 = 0 /\ 0 % 3 = 0
        OBVIOUS
      <3>2. Over(bytes, 0, mac) = mac
        BY DEF Over, Bytes
      <3> QED BY <3>1, <3>2 DEF FileAt, Begin
    <2>2. ASSUME NEW k \in 1 .. len
          PROVE  FileAt(bytes, mac, k) = Char_read(FileAt(bytes, mac, k - 1), text[k], COLON)
      <3>1. k \in 1 .. 3 * Len(bytes) - 1 /\ Len(bytes) <= 6
        BY <1>1
      <3> QED BY <3>1, FileStep
    <2>3. ASSUME NEW k \in 0 .. len
          PROVE  f[k] = IF k = 0 THEN Begin(mac) ELSE Char_read(f[k - 1], text[k], COLON)
      <3>1. CASE k = 0
        BY <2>1, <3>1
      <3>2. CASE k # 0
        <4>1. k \in 1 .. len /\ k - 1 \in 0 .. len
          BY <3>2
        <4>2. f[k] = FileAt(bytes, mac, k) /\ f[k - 1] = FileAt(bytes, mac, k - 1)
          BY <4>1
        <4> HIDE DEF f, text
        <4> QED BY <2>2, <3>2, <4>1, <4>2
      <3> QED BY <3>1, <3>2
    <2>4. f = [k \in 0 .. len |-> f[k]]
      OBVIOUS
    <2> HIDE DEF f, text, len
    <2> QED BY <2>3, <2>4 DEF Reads
  <1>3. s = FileAt(bytes, mac, len)
    <2>1. f[len] = FileAt(bytes, mac, len)
      BY <1>1
    <2> HIDE DEF f, text, len
    <2> QED BY <1>1, <1>2, <2>1, ReadIs
  <1>4. len \div 3 = n - 1 /\ len % 3 = 2 /\ (n - 1) + 1 = n
    BY <1>1
  <1>5. s = [mac |-> Over(bytes, n - 1, mac), i |-> n - 1, value |-> bytes[n], ret |-> 0]
    <2> HIDE DEF s, len
    <2> QED BY <1>3, <1>4 DEF FileAt
  <1>6. s \in Reading
    BY <1>1, ReadType
  <1>7. text[len] # COLON
    <2>1. bytes # <<>> /\ len \in 1 .. 3 * n /\ (len + 2) \div 3 = n /\ bytes[n] \in Octet
      BY <1>1
    <2>2. text[len] = bytes[n] % 16
      <3> HIDE DEF len
      <3> QED BY <1>4, <2>1 DEF AddressFile
    <2>3. bytes[n] % 16 \in 0 .. 15
      BY <2>1, OctetFacts
    <2> HIDE DEF text, len, n
    <2> QED BY <2>2, <2>3 DEF COLON
  <1>8. Byte_stored(s).mac = Over(bytes, n, mac) /\ Byte_stored(s).ret = 0
    <2> DEFINE p == n - 1
    <2>1. p \in 0 .. 5 /\ p < Len(bytes) /\ p + 1 = n
      BY <1>1
    <2> HIDE DEF p, s, len
    <2>2. [Over(bytes, p, mac) EXCEPT ![p + 1] = bytes[p + 1]] = Over(bytes, p + 1, mac)
      BY <2>1, OverNext
    <2>3. s = [mac |-> Over(bytes, p, mac), i |-> p, value |-> bytes[n], ret |-> 0]
      BY <1>5 DEF p
    <2>4. s.i < 6
      BY <2>1, <2>3
    <2>5. Byte_stored(s) = [mac |-> [s.mac EXCEPT ![s.i + 1] = s.value], i |-> s.i + 1,
                            value |-> 0, ret |-> s.ret]
      BY <1>6, <2>4, StoredType
    <2> HIDE DEF n, f, text
    <2>6. [Over(bytes, p, mac) EXCEPT ![p + 1] = bytes[n]] = Over(bytes, n, mac)
      BY <2>1, <2>2
    <2>7. s.mac = Over(bytes, p, mac) /\ s.i = p /\ s.value = bytes[n] /\ s.ret = 0
      BY <2>3
    <2> QED BY <2>5, <2>6, <2>7
  <1>9. Length_fits(len) /\ s.ret = 0 /\ s.i < 6
    <2>1. n - 1 < 6
      BY <1>1
    <2> HIDE DEF s, len
    <2> QED BY <1>1, <1>5, <2>1 DEF Length_fits
  <1> HIDE DEF s, text, len, n
  <1>10. mac_from_hex(mac, text, len, COLON) = Byte_stored(s)
    BY <1>7, <1>9, MacUnfolds DEF s
  <1> QED BY <1>8, <1>10 DEF text, len, n

-----------------------------------------------------------------------------
(* Types *)

LEMMA Unwrapped ==
    /\ \A n \in Nat \ {0} : n < SizeMod => Without_LF(n) = n - 1
    /\ ~ Length_fits(Without_LF(0))
  BY DEF Without_LF, SizeMod, Length_fits

LEMMA LinkFacts ==
    ASSUME system \in Systems, Known
    PROVE  Link \in Seq(Octet) /\ Len(Link) \in Nat /\ 3 * Len(Link) < SizeMod
  BY SystemsAssumption DEF Known, Link

(* What the address file leaves in the record: all of its bytes when they   *)
(* are 4 to 6, and else, or when the file is empty, what was there before.  *)
LEMMA FileLeaves ==
    ASSUME system \in Systems, Known, iface.mac \in Bytes,
           NEW text \in {AddressFile(Link), <<>>}
    PROVE  LET hex == mac_from_hex(iface.mac, text, Without_LF(Len(text)), COLON)
           IN  /\ hex \in Reading
               /\ hex.ret # 0 => hex.mac = iface.mac
               /\ hex.ret = 0 /\ Len(Link) = 6 => hex.mac = Link
  <1> DEFINE n == Len(Link)
             len == Without_LF(Len(text))
             hex == mac_from_hex(iface.mac, text, len, COLON)
             none == [Begin(iface.mac) EXCEPT !.ret = -1]
  <1>0. Link \in Seq(Octet) /\ n \in Nat /\ 3 * n < SizeMod
    BY LinkFacts
  <1>1. none \in Reading /\ none.ret = -1 /\ none.mac = iface.mac
    BY DEF Begin, Reading, Octet
  <1>2. CASE ~ Length_fits(len)
    <2>1. hex = none
      <3> HIDE DEF len
      <3> QED BY <1>2, MacUnfolds
    <2> HIDE DEF hex, none
    <2> QED BY <1>1, <2>1 DEF hex
  <1>3. CASE Length_fits(len)
    <2>1. text = AddressFile(Link) /\ text # <<>>
      <3>1. text # <<>>
        BY <1>3, Unwrapped
      <3> QED BY <3>1
    <2>2. Link # <<>>
      <3> SUFFICES ASSUME Link = <<>> PROVE FALSE
        OBVIOUS
      <3>1. Len(text) = 1
        BY <2>1 DEF AddressFile
      <3>2. len = 0
        BY <3>1, Unwrapped DEF SizeMod
      <3> QED BY <1>3, <3>2 DEF Length_fits
    <2>3. Len(text) = 3 * n
      <3> HIDE DEF n
      <3>1. DOMAIN text = 1 .. 3 * n
        BY <2>1, <2>2 DEF AddressFile, n
      <3>2. 3 * n \in Nat
        BY <1>0
      <3>3. \E x \in {3 * n} : DOMAIN text = 1 .. x /\ x \in Nat
        BY <3>1, <3>2
      <3> QED
        <4>1. text = [k \in 1 .. 3 * n |-> text[k]]
          BY <2>1, <2>2 DEF AddressFile, n
        <4> HIDE DEF n
        <4> QED BY <3>2, <4>1
    <2>4. n # 0
      BY <1>0, <2>2
    <2>5. len = 3 * n - 1
      <3>1. 3 * n \in Nat \ {0}
        BY <1>0, <2>4
      <3> HIDE DEF n
      <3> QED BY <1>0, <2>3, <3>1, Unwrapped
    <2>6. n \in 4 .. 6
      <3> HIDE DEF n, len
      <3> QED BY <1>0, <1>3, <2>5 DEF Length_fits
    <2>7. hex.ret = 0 /\ hex.mac = Over(Link, n, iface.mac)
      <3> HIDE DEF len
      <3>1. LET h == mac_from_hex(iface.mac, AddressFile(Link), 3 * Len(Link) - 1, COLON)
            IN  h.ret = 0 /\ h.mac = Over(Link, Len(Link), iface.mac)
        BY <1>0, <2>6, FileReadBack
      <3> QED BY <2>1, <2>5, <3>1
    <2>8. hex \in Reading
      <3> HIDE DEF n, len
      <3>1. len \in Nat
        BY <2>5, <2>6
      <3> QED BY <3>1, MacType
    <2>9. ASSUME n = 6 PROVE Over(Link, n, iface.mac) = Link
      <3>1. Link = [j \in 1 .. 6 |-> Link[j]]
        BY <1>0, <2>9
      <3>2. \A j \in 1 .. 6 : j <= n
        BY <2>9
      <3>3. Over(Link, n, iface.mac) = [j \in 1 .. 6 |-> Link[j]]
        <4> HIDE DEF n
        <4> QED BY <3>2 DEF Over
      <3> QED BY <3>1, <3>3
    <2> HIDE DEF hex
    <2> QED BY <2>7, <2>8, <2>9 DEF hex
  <1> QED BY <1>2, <1>3

LEMMA CopiedType ==
    ASSUME system \in Systems
    PROVE  LET mac == Copied(IF Known THEN Link ELSE <<>>)
           IN  /\ mac \in Bytes
               /\ Known /\ Len(Link) = 6 => mac = Link
  <1> DEFINE b == IF Known THEN Link ELSE <<>>
  <1>1. b \in Seq(Octet)
    BY LinkFacts
  <1>2. \A k \in 1 .. 6 : k <= Len(b) => b[k] \in Octet
    <2> HIDE DEF b
    <2>1. Len(b) \in Nat /\ \A k \in 1 .. Len(b) : b[k] \in Octet
      BY <1>1
    <2> QED BY <2>1
  <1>3. Copied(b) \in Bytes
    <2> HIDE DEF b
    <2> QED BY <1>2 DEF Copied, Bytes
  <1>4. ASSUME Known, Len(Link) = 6 PROVE Copied(b) = Link
    <2>1. b = Link /\ Link = [j \in 1 .. 6 |-> Link[j]]
      BY <1>4, LinkFacts
    <2> HIDE DEF b
    <2>2. Copied(Link) = [j \in 1 .. 6 |-> Link[j]]
      BY <1>4 DEF Copied
    <2> QED BY <2>1, <2>2
  <1> QED BY <1>3, <1>4

-----------------------------------------------------------------------------
(* What is typed, and where the list comes from *)

Lists == {s.list : s \in Systems}

Typed == TypeOK /\ (pc = "filter" => list \in Lists)

Typed_record(r) == r.mac \in Bytes /\ r.flags \subseteq Flags

LEMMA ZeroedTyped == \A f \in SUBSET Flags : Typed_record(Zeroed(f))
  BY DEF Typed_record, Zeroed, Bytes, Octet

LEMMA MacSet ==
    ASSUME DOMAIN iface = Fields, NEW mac, NEW r, r = [iface EXCEPT !.mac = mac]
    PROVE  /\ r.mac = mac /\ r.flags = iface.flags
           /\ r.name = iface.name /\ r.addr = iface.addr
  BY DEF Fields

LEMMA FilledFields ==
    ASSUME DOMAIN iface = Fields, NEW e
    PROVE  /\ Filled(e).mac = iface.mac /\ Filled(e).flags = iface.flags \cup Obtained(e)
           /\ Filled(e).name = e.name /\ Filled(e).addr = e.addr
  BY DEF Fields, Filled

LEMMA InitTyped == Init => Typed
  <1> SUFFICES ASSUME Init PROVE Typed
    OBVIOUS
  <1>1. iface = Zeroed({}) /\ before = Zeroed({}) /\ Typed_record(Zeroed({}))
    BY ZeroedTyped DEF Init
  <1>2. \A r \in {iface, before} : r.mac \in Bytes /\ r.flags \subseteq Flags
    BY <1>1 DEF Typed_record
  <1>3. linux \in BOOLEAN /\ buf \in BOOLEAN /\ moved \in BOOLEAN /\ undefined \in BOOLEAN
    BY DEF Init
  <1>4. pc = "idle" /\ list = NULL /\ ifa = NULL /\ system \in Systems /\ result = 0
    BY DEF Init
  <1> QED BY <1>2, <1>3, <1>4 DEF Typed, TypeOK

(* Steps that leave the records alone. *)
LEMMA TypedKept ==
    ASSUME Typed, UNCHANGED <<iface, before>>, linux' \in BOOLEAN, buf' \in BOOLEAN,
           moved' \in BOOLEAN, undefined' \in BOOLEAN, system' \in Systems,
           pc' \in {"idle", "list", "filter", "mac", "room", "copy", "cleanup", "crashed"},
           list' \in Lists \cup {NULL}, ifa' \in Entry \cup {NULL}, result' \in -2 .. 6,
           pc' = "filter" => list' \in Lists
    PROVE  Typed'
  BY DEF Typed, TypeOK, Lists

LEMMA MacTyped ==
    ASSUME Typed, DOMAIN iface = Fields, NEW mac \in Bytes, NEW ret \in -2 .. 6,
           Mac_read(mac, ret), Does("mac", "cleanup") \/ Does("copy", "cleanup"),
           buf' \in BOOLEAN
    PROVE  Typed'
  <1>1. Typed_record(iface')
    BY MacSet DEF Typed_record, Mac_read, Typed, TypeOK
  <1>2. \A r \in {iface', before'} : r.mac \in Bytes /\ r.flags \subseteq Flags
    BY <1>1 DEF Typed_record, Typed, TypeOK, Mac_read, Caller_kept
  <1> QED BY <1>2 DEF Typed, TypeOK, Mac_read, Does, Caller_kept, System_kept

LEMMA StepTyped == Typed /\ Told /\ [Next]_vars => Typed'
  <1> SUFFICES ASSUME Typed, Told, [Next]_vars PROVE Typed'
    OBVIOUS
  <1>0. DOMAIN iface = Fields /\ system \in Systems /\ Typed_record(iface) /\ Typed_record(before)
    BY DEF Told, Typed, TypeOK, Typed_record
  <1>1. ASSUME NEW ip \in IPs, NEW given \in {Zeroed(f) : f \in Presets} \cup {iface},
               Lookup(ip, given)
        PROVE  Typed'
    <2>1. Typed_record(given)
      BY <1>0, ZeroedTyped, CallsAssumption
    <2>2. \A r \in {iface', before'} : r.mac \in Bytes /\ r.flags \subseteq Flags
      BY <1>1, <2>1 DEF Lookup, Typed_record
    <2> QED BY <1>1, <2>2 DEF Lookup, Does, Typed, TypeOK
  <1>2. CASE ListFails
    BY <1>2, TypedKept
    DEF ListFails, Does, Found_kept, Caller_kept, System_kept, Typed, TypeOK, Lists
  <1>3. CASE ListTaken
    <2>1. list' \in Lists
      BY <1>3, <1>0 DEF ListTaken, Lists
    <2> QED BY <1>3, <2>1, TypedKept DEF ListTaken, Does, Caller_kept, Typed, TypeOK
  <1>4. CASE Filter_undefined \/ NotFound
    BY <1>4, TypedKept
    DEF Filter_undefined, NotFound, Does, Found_kept, Caller_kept, System_kept, Typed,
        TypeOK, Lists
  <1>5. CASE Found
    <2>1. PICK k \in DOMAIN list : ifa' = list[k] /\ iface' = Filled(list[k])
      BY <1>5 DEF Found
    <2>2. list[k] \in Entry
      <3>1. list \in Lists
        BY <1>5 DEF Found, Does, Typed
      <3> QED BY <2>1, <3>1, SystemsAssumption DEF Lists
    <2>3. iface'.mac = iface.mac /\ iface'.flags = iface.flags \cup Obtained(list[k])
      BY <1>0, <2>1, FilledFields
    <2>4. Obtained(list[k]) \subseteq Flags
      BY DEF Obtained, Flags
    <2>5. Typed_record(iface')
      BY <1>0, <2>3, <2>4 DEF Typed_record
    <2>6. \A r \in {iface', before'} : r.mac \in Bytes /\ r.flags \subseteq Flags
      BY <1>0, <1>5, <2>5 DEF Typed_record, Found, Caller_kept
    <2> QED BY <1>5, <2>1, <2>2, <2>6
         DEF Found, Does, Caller_kept, System_kept, Typed, TypeOK
  <1>6. CASE NoFile \/ NoIndex \/ NoRoom \/ CopyFails
    <2>1. PICK code \in 1 .. 6 : Mac_failed(code)
      BY <1>6 DEF NoFile, NoIndex, NoRoom, CopyFails
    <2>2. buf' \in BOOLEAN /\ pc' = "cleanup"
      BY <1>6 DEF NoFile, NoIndex, NoRoom, CopyFails, Does, Typed, TypeOK
    <2> QED BY <2>1, <2>2, TypedKept
         DEF Mac_failed, Found_kept, Caller_kept, System_kept, Typed, TypeOK, Lists
  <1>7. CASE FileRead
    <2>1. PICK text \in {AddressFile(Link), <<>>} :
             LET hex == mac_from_hex(iface.mac, text, Without_LF(Len(text)), COLON)
             IN  Mac_read(hex.mac, hex.ret)
      BY <1>7 DEF FileRead
    <2>2. mac_from_hex(iface.mac, text, Without_LF(Len(text)), COLON) \in Reading
      BY <1>0, <1>7, FileLeaves DEF FileRead, Typed_record
    <2> DEFINE hex == mac_from_hex(iface.mac, text, Without_LF(Len(text)), COLON)
    <2>3. hex \in Reading /\ Mac_read(hex.mac, hex.ret)
      BY <2>1, <2>2
    <2> HIDE DEF hex
    <2>4. hex.mac \in Bytes /\ hex.ret \in -2 .. 6
      BY <2>3 DEF Reading
    <2> QED BY <1>0, <1>7, <2>3, <2>4, MacTyped DEF FileRead, Typed, TypeOK
  <1>8. CASE Copy
    <2> DEFINE mac == Copied(IF Known THEN Link ELSE <<>>)
    <2>1. mac \in Bytes
      BY <1>0, CopiedType
    <2>2. Mac_read(mac, 0) /\ Does("copy", "cleanup") /\ buf' \in BOOLEAN
      BY <1>8 DEF Copy
    <2> HIDE DEF mac
    <2> QED BY <1>0, <2>1, <2>2, MacTyped
  <1>9. CASE Index \/ Room \/ Cleanup
    BY <1>9, TypedKept
    DEF Index, Room, Cleanup, Does, Caller_kept, System_kept, Typed, TypeOK, Lists
  <1>10. ASSUME NEW groups \in Texts, Parse(groups) PROVE Typed'
    BY <1>10, TypedKept DEF Parse, Typed, TypeOK, Lists
  <1>11. CASE Change
    BY <1>11, TypedKept DEF Change, Typed, TypeOK, Lists
  <1>12. CASE UNCHANGED vars
    BY <1>12, TypedKept DEF vars, Typed, TypeOK, Lists
  <1> QED
    BY <1>1, <1>2, <1>3, <1>4, <1>5, <1>6, <1>7, <1>8, <1>9, <1>10, <1>11, <1>12
    DEF Next, mac_from_if

-----------------------------------------------------------------------------
(* The hardware address of a lookup that fails *)

(* It is touched by the last query alone.                                   *)
Mac_as_given ==
    /\ pc \in {"list", "filter", "mac", "room", "copy"} =>
          result = 0 /\ iface.mac = before.mac
    /\ pc \in {"cleanup", "idle"} /\ result # 0 => iface.mac = before.mac

LEMMA InitMac == Init => Mac_as_given
  BY DEF Init, Mac_as_given

LEMMA StepMac == Mac_as_given /\ Typed /\ Told /\ [Next]_vars => Mac_as_given'
  <1> SUFFICES ASSUME Mac_as_given, Typed, Told, [Next]_vars PROVE Mac_as_given'
    OBVIOUS
  <1>0. DOMAIN iface = Fields /\ system \in Systems /\ iface.mac \in Bytes
    BY DEF Told, Typed, TypeOK
  <1>1. ASSUME NEW ip \in IPs, NEW given \in {Zeroed(f) : f \in Presets} \cup {iface},
               Lookup(ip, given)
        PROVE  Mac_as_given'
    BY <1>1 DEF Lookup, Does, Mac_as_given
  <1>2. CASE ListFails \/ ListTaken
    BY <1>2 DEF ListFails, ListTaken, Does, Found_kept, Caller_kept, Mac_as_given
  <1>3. CASE Filter_undefined \/ NotFound
    BY <1>3 DEF Filter_undefined, NotFound, Does, Found_kept, Caller_kept, Mac_as_given
  <1>4. CASE Found
    <2>1. iface'.mac = iface.mac
      BY <1>0, <1>4, FilledFields DEF Found
    <2> QED BY <1>4, <2>1 DEF Found, Does, Caller_kept, Mac_as_given
  <1>5. CASE NoFile \/ NoIndex \/ NoRoom \/ CopyFails
    <2>1. UNCHANGED <<iface, before>> /\ pc' = "cleanup" /\ iface.mac = before.mac
      BY <1>5 DEF NoFile, NoIndex, NoRoom, CopyFails, Does, Mac_failed, Found_kept,
                  Caller_kept, Mac_as_given
    <2> QED BY <2>1 DEF Mac_as_given
  <1>6. CASE FileRead
    <2>1. PICK text \in {AddressFile(Link), <<>>} :
             LET hex == mac_from_hex(iface.mac, text, Without_LF(Len(text)), COLON)
             IN  Mac_read(hex.mac, hex.ret)
      BY <1>6 DEF FileRead
    <2> DEFINE hex == mac_from_hex(iface.mac, text, Without_LF(Len(text)), COLON)
    <2>2. hex.ret # 0 => hex.mac = iface.mac
      BY <1>0, <1>6, FileLeaves DEF FileRead
    <2>3. Mac_read(hex.mac, hex.ret)
      BY <2>1
    <2> HIDE DEF hex
    <2>4. iface'.mac = hex.mac /\ result' = hex.ret /\ before' = before
      BY <1>0, <2>3, MacSet DEF Mac_read, Caller_kept
    <2>5. pc' = "cleanup" /\ iface.mac = before.mac
      BY <1>6 DEF FileRead, Does, Mac_as_given
    <2> QED BY <2>2, <2>4, <2>5 DEF Mac_as_given
  <1>7. CASE Copy
    BY <1>7 DEF Copy, Does, Mac_read, Mac_as_given
  <1>8. CASE Index \/ Room \/ Cleanup
    BY <1>8 DEF Index, Room, Cleanup, Does, Caller_kept, Mac_as_given
  <1>9. ASSUME NEW groups \in Texts, Parse(groups) PROVE Mac_as_given'
    BY <1>9 DEF Parse, Mac_as_given
  <1>10. CASE Change \/ UNCHANGED vars
    BY <1>10 DEF Change, vars, Mac_as_given
  <1> QED
    BY <1>1, <1>2, <1>3, <1>4, <1>5, <1>6, <1>7, <1>8, <1>9, <1>10 DEF Next, mac_from_if

-----------------------------------------------------------------------------
(* The record and the interfaces, as long as they have not changed *)

(* The entry found is on the list that was taken, the record has its name   *)
(* and its address, and, once obtained, the hardware address of that name.  *)
Same ==
    /\ pc = "filter" /\ ~ moved => list = system.list
    /\ ifa # NULL =>
          /\ iface.name = ifa.name /\ iface.addr = addr
          /\ ~ moved => \E k \in DOMAIN system.list : system.list[k] = ifa
    /\ pc \in {"cleanup", "idle"} /\ result = 0 /\ ifa # NULL /\ ~ moved
          /\ Len(Link) = 6 => iface.mac = Link

LEMMA InitSame == Init => Same
  BY DEF Init, Same

(* The name of an entry on the list has a hardware address.                 *)
LEMMA FoundKnown ==
    ASSUME Same, system \in Systems, ifa # NULL, ~ moved
    PROVE  Known
  BY SystemsAssumption DEF Same, Known

(* A step on the way that leaves the record and the system alone.           *)
LEMMA SameKept ==
    ASSUME Same, UNCHANGED <<iface, ifa, addr, system, moved>>,
           pc' = "filter" => pc = "filter" /\ list' = list,
           \/ pc' \notin {"cleanup", "idle"}
           \/ result' # 0
           \/ ifa = NULL
           \/ pc \in {"cleanup", "idle"} /\ result' = result
    PROVE  Same'
  BY DEF Same, Link

(* The last query, when the system is still the one the list was taken of.  *)
LEMMA SameMac ==
    ASSUME Same, DOMAIN iface = Fields, pc' = "cleanup", NEW mac, NEW ret,
           Mac_read(mac, ret),
           ret = 0 /\ ifa # NULL /\ ~ moved /\ Len(Link) = 6 => mac = Link
    PROVE  Same'
  <1>1. iface'.mac = mac /\ iface'.name = iface.name /\ iface'.addr = iface.addr
    BY MacSet DEF Mac_read
  <1>2. Link' = Link /\ UNCHANGED <<system, moved, ifa, addr>> /\ result' = ret
    BY <1>1 DEF Link, Mac_read, System_kept, Caller_kept
  <1> QED BY <1>1, <1>2 DEF Same

LEMMA StepSame == Same /\ Typed /\ Told /\ [Next]_vars => Same'
  <1> SUFFICES ASSUME Same, Typed, Told, [Next]_vars PROVE Same'
    OBVIOUS
  <1>0. DOMAIN iface = Fields /\ system \in Systems /\ iface.mac \in Bytes
    BY DEF Told, Typed, TypeOK
  <1>1. ASSUME NEW ip \in IPs, NEW given \in {Zeroed(f) : f \in Presets} \cup {iface},
               Lookup(ip, given)
        PROVE  Same'
    BY <1>1 DEF Lookup, Does, Same
  <1>2. CASE ListFails
    BY <1>2, SameKept DEF ListFails, Does, Found_kept, Caller_kept, System_kept
  <1>3. CASE ListTaken
    BY <1>3 DEF ListTaken, Does, Caller_kept, Same, Told, Untouched
  <1>4. CASE Filter_undefined \/ NotFound
    <2>1. ifa = NULL
      BY <1>4 DEF Filter_undefined, NotFound, Does, Told, Untouched
    <2> QED BY <1>4, <2>1, SameKept
         DEF Filter_undefined, NotFound, Does, Found_kept, Caller_kept, System_kept
  <1>5. CASE Found
    <2>1. PICK k \in DOMAIN list : Has_address(k) /\ ifa' = list[k] /\ iface' = Filled(list[k])
      BY <1>5 DEF Found
    <2>2. list[k].addr = addr
      BY <2>1 DEF Has_address, comp_ifaddrs_addr
    <2>3. iface'.name = ifa'.name /\ iface'.addr = addr
      BY <1>0, <2>1, <2>2, FilledFields
    <2>4. ~ moved => list = system.list
      BY <1>5 DEF Found, Does, Same
    <2> QED BY <1>5, <2>1, <2>3, <2>4 DEF Found, Does, Caller_kept, System_kept, Same
  <1>6. CASE NoFile \/ NoIndex \/ NoRoom \/ CopyFails
    <2>1. PICK code \in 1 .. 6 : Mac_failed(code)
      BY <1>6 DEF NoFile, NoIndex, NoRoom, CopyFails
    <2>2. pc' = "cleanup" /\ result' # 0
      BY <1>6, <2>1 DEF NoFile, NoIndex, NoRoom, CopyFails, Does, Mac_failed
    <2> QED BY <2>1, <2>2, SameKept DEF Mac_failed, Found_kept, Caller_kept, System_kept
  <1>7. CASE FileRead
    <2>1. PICK text \in {AddressFile(Link), <<>>} :
             LET hex == mac_from_hex(iface.mac, text, Without_LF(Len(text)), COLON)
             IN  Mac_read(hex.mac, hex.ret)
      BY <1>7 DEF FileRead
    <2> DEFINE hex == mac_from_hex(iface.mac, text, Without_LF(Len(text)), COLON)
    <2>2. hex.ret = 0 /\ Len(Link) = 6 => hex.mac = Link
      BY <1>0, <1>7, FileLeaves DEF FileRead
    <2>3. Mac_read(hex.mac, hex.ret) /\ pc' = "cleanup"
      BY <1>7, <2>1 DEF FileRead, Does
    <2> HIDE DEF hex
    <2> QED BY <1>0, <2>2, <2>3, SameMac
  <1>8. CASE Copy
    <2> DEFINE mac == Copied(IF Known THEN Link ELSE <<>>)
    <2>1. Known /\ Len(Link) = 6 => mac = Link
      BY <1>0, CopiedType
    <2>2. ifa # NULL /\ ~ moved => Known
      BY <1>0, FoundKnown
    <2>3. Mac_read(mac, 0) /\ pc' = "cleanup"
      BY <1>8 DEF Copy, Does
    <2> HIDE DEF mac
    <2> QED BY <1>0, <2>1, <2>2, <2>3, SameMac
  <1>9. CASE Index \/ Room
    BY <1>9, SameKept DEF Index, Room, Does, Caller_kept, System_kept
  <1>10. CASE Cleanup
    BY <1>10, SameKept DEF Cleanup, Does, Caller_kept, System_kept
  <1>11. ASSUME NEW groups \in Texts, Parse(groups) PROVE Same'
    BY <1>11, SameKept DEF Parse
  <1>12. CASE Change
    BY <1>12 DEF Change, Same
  <1>13. CASE UNCHANGED vars
    BY <1>13 DEF vars, Same, Link
  <1> QED
    BY <1>1, <1>2, <1>3, <1>4, <1>5, <1>6, <1>7, <1>8, <1>9, <1>10, <1>11, <1>12, <1>13
    DEF Next, mac_from_if

-----------------------------------------------------------------------------
LEMMA LookupInvariant == Spec => [](Typed /\ Told /\ Mac_as_given /\ Same)
  <1>1. Init => Typed /\ Told /\ Mac_as_given /\ Same
    BY InitTyped, InitInv, InitMac, InitSame DEF IInv
  <1>2. Typed /\ Told /\ Mac_as_given /\ Same /\ [Next]_vars
        => (Typed /\ Told /\ Mac_as_given /\ Same)'
    BY StepTyped, StepTold, StepMac, StepSame
  <1> QED BY <1>1, <1>2, PTL DEF Spec

(* The state has its types: in particular the record, whatever bytes an     *)
(* address file of any length leaves in it, has a hardware address of six   *)
(* bytes, and the flags are those of net.h (net.c:293-335).                 *)
THEOREM StaysTyped == Spec => []TypeOK
  BY LookupInvariant, PTL DEF Typed

(* A lookup that fails leaves the hardware address of the record alone,     *)
(* also when the address file was emptied between its opening and its       *)
(* reading (net.c:104).                                                     *)
THEOREM FailureKeepsMac == Spec => []MacKept
  <1>1. Mac_as_given => MacKept
    BY DEF Mac_as_given, MacKept
  <1> QED BY <1>1, LookupInvariant, PTL

(* The record of a lookup that found its address is that of one interface,  *)
(* although the hardware address is asked for separately and by name, when  *)
(* nothing has changed since the list was taken (net.c:329): the file with  *)
(* the address, or the buffer, is read back byte by byte.                   *)
THEOREM RecordIsOneInterface == Spec => []OneInterface
  <1>1. Same => OneInterface
    BY DEF Same, OneInterface, Link
  <1> QED BY <1>1, LookupInvariant, PTL

-----------------------------------------------------------------------------
(* Addresses that the caller has *)

(* The value of a group, digit by digit.                                    *)
Digits == (0 .. WEIRD) \ {COLON}

Values(v, g) == v = [k \in 0 .. Len(g) |-> IF k = 0 THEN 0 ELSE 16 * v[k - 1] + g[k]]

LEMMA GroupFacts ==
    ASSUME NEW g \in Seq(Digits)
    PROVE  Len(g) \in Nat /\ \A k \in 1 .. Len(g) : g[k] \in Digits /\ g[k] \in Nat /\ g[k] # COLON
  <1>1. Len(g) \in Nat /\ \A k \in 1 .. Len(g) : g[k] \in Digits
    OBVIOUS
  <1>2. \A c \in Digits : c \in Nat /\ c # COLON
    BY DEF Digits, WEIRD, COLON
  <1> QED BY <1>1, <1>2, Zenon

LEMMA ValuesExist ==
    ASSUME NEW g \in Seq(Digits)
    PROVE  /\ \E v \in [0 .. Len(g) -> Nat] : Values(v, g) /\ Value(g) = v[Len(g)]
           /\ \A v, w : Values(v, g) /\ Values(w, g) => v[Len(g)] = w[Len(g)]
  <1> DEFINE n == Len(g)
             step == [q \in (1 .. n) \X Nat |-> 16 * q[2] + g[q[1]]]
  <1>1. n \in Nat /\ \A k \in 1 .. n : g[k] \in Nat
    BY GroupFacts
  <1>2. step \in [(1 .. n) \X Nat -> Nat]
    <2> HIDE DEF n
    <2> QED BY <1>1
  <1>3. PICK v \in [0 .. n -> Nat] : Recurs0(v, n, 0, step)
    <2> HIDE DEF step, n
    <2> QED BY <1>1, <1>2, RecursionFrom
  <1>4. Values(v, g)
    <2>1. \A k \in 0 .. n : v[k] = IF k = 0 THEN 0 ELSE 16 * v[k - 1] + g[k]
      <3> SUFFICES ASSUME NEW k \in 0 .. n, k # 0 PROVE v[k] = 16 * v[k - 1] + g[k]
        BY <1>3 DEF Recurs0
      <3>1. k \in 1 .. n /\ k - 1 \in 0 .. n
        BY <1>1
      <3>2. v[k] = step[<<k, v[k - 1]>>] /\ v[k - 1] \in Nat
        BY <1>3, <3>1 DEF Recurs0
      <3> QED BY <3>1, <3>2
    <2>2. v = [k \in 0 .. n |-> v[k]]
      BY <1>3
    <2> QED BY <2>1, <2>2 DEF Values
  <1>5. ASSUME NEW u, NEW w, Values(u, g), Values(w, g) PROVE u[n] = w[n]
    <2> DEFINE h == [k \in 0 .. n |-> u[k] = w[k]]
               S == {TRUE}
    <2>1. \A k \in 1 .. n : u[k] = 16 * u[k - 1] + g[k] /\ w[k] = 16 * w[k - 1] + g[k]
      <3> SUFFICES ASSUME NEW k \in 1 .. n PROVE u[k] = 16 * u[k - 1] + g[k] /\ w[k] = 16 * w[k - 1] + g[k]
        OBVIOUS
      <3>1. k \in 0 .. Len(g) /\ k # 0
        OBVIOUS
      <3> QED BY <1>5, <3>1, Zenon DEF Values
    <2>2. u[0] = 0 /\ w[0] = 0
      <3>1. 0 \in 0 .. Len(g)
        BY <1>1
      <3> QED BY <1>5, <3>1, Zenon DEF Values
    <2>3. h[0] \in S
      <3>1. 0 \in 0 .. n
        BY <1>1
      <3> QED BY <2>2, <3>1
    <2>4. \A k \in 1 .. n : h[k - 1] \in S => h[k] \in S
      <3> SUFFICES ASSUME NEW k \in 1 .. n, h[k - 1] \in S PROVE h[k] \in S
        OBVIOUS
      <3>1. k \in 0 .. n /\ k - 1 \in 0 .. n
        BY <1>1
      <3>2. u[k - 1] = w[k - 1]
        BY <3>1
      <3>3. u[k] = w[k]
        BY <2>1, <3>2
      <3> QED BY <3>1, <3>3
    <2> HIDE DEF h
    <2>5. \A k \in 0 .. n : h[k] \in S
      <3> HIDE DEF n, S
      <3> QED BY <1>1, <2>3, <2>4, StaysIn
    <2>6. n \in 0 .. n
      BY <1>1
    <2> QED BY <2>5, <2>6 DEF h, S
  <1>6. Value(g) = v[n]
    <2> DEFINE w == CHOOSE u : Values(u, g)
    <2>1. Values(w, g) /\ Value(g) = w[n]
      BY <1>4 DEF Value, Values
    <2> HIDE DEF w
    <2> QED BY <1>4, <1>5, <2>1
  <1> QED BY <1>3, <1>4, <1>5, <1>6

(* The value of the first k digits, for each k.                             *)
Prefix_value(g, k) == Value(SubSeq(g, 1, k))

LEMMA PrefixValues ==
    ASSUME NEW g \in Seq(Digits)
    PROVE  /\ Len(g) \in Nat /\ Prefix_value(g, Len(g)) = Value(g) /\ Prefix_value(g, 0) = 0
           /\ \A k \in 0 .. Len(g) : Prefix_value(g, k) \in Nat
           /\ \A k \in 1 .. Len(g) : /\ g[k] \in Digits /\ g[k] \in Nat
                                     /\ Prefix_value(g, k) = 16 * Prefix_value(g, k - 1) + g[k]
  <1> DEFINE n == Len(g)
  <1>1. n \in Nat /\ \A k \in 1 .. n : g[k] \in Nat /\ g[k] \in Digits
    BY GroupFacts
  <1>2. PICK v \in [0 .. n -> Nat] : Values(v, g) /\ Value(g) = v[n]
    BY ValuesExist
  <1>3. ASSUME NEW k \in 0 .. n PROVE Prefix_value(g, k) = v[k]
    <2> DEFINE s == SubSeq(g, 1, k)
               u == [j \in 0 .. k |-> v[j]]
    <2>1. s \in Seq(Digits) /\ Len(s) = k /\ \A j \in 1 .. k : s[j] = g[j]
      OBVIOUS
    <2>2. Values(u, s)
      <3>1. \A j \in 0 .. k : u[j] = IF j = 0 THEN 0 ELSE 16 * u[j - 1] + s[j]
        <4> SUFFICES ASSUME NEW j \in 0 .. k PROVE v[j] = IF j = 0 THEN 0 ELSE 16 * u[j - 1] + s[j]
          OBVIOUS
        <4>1. v[j] = IF j = 0 THEN 0 ELSE 16 * v[j - 1] + g[j]
          <5>1. j \in 0 .. Len(g)
            BY <1>1
          <5> QED BY <1>2, <5>1, Zenon DEF Values
        <4>2. j # 0 => u[j - 1] = v[j - 1] /\ s[j] = g[j]
          BY <2>1
        <4> HIDE DEF u, s
        <4> QED BY <4>1, <4>2
      <3>2. u = [j \in 0 .. k |-> u[j]]
        OBVIOUS
      <3> HIDE DEF u, s
      <3> QED BY <2>1, <3>1, <3>2 DEF Values
    <2>3. PICK w \in [0 .. Len(s) -> Nat] : Values(w, s) /\ Value(s) = w[Len(s)]
      <3> HIDE DEF s
      <3> QED BY <2>1, ValuesExist
    <2>4. w[Len(s)] = u[Len(s)]
      <3> HIDE DEF s, u
      <3> QED BY <2>1, <2>2, <2>3, ValuesExist
    <2>5. u[k] = v[k]
      OBVIOUS
    <2> HIDE DEF s, u
    <2> QED BY <2>1, <2>3, <2>4, <2>5 DEF Prefix_value, s
  <1>4. \A k \in 0 .. n : v[k] = IF k = 0 THEN 0 ELSE 16 * v[k - 1] + g[k]
    BY <1>2, Zenon DEF Values
  <1>5. n \in 0 .. n /\ 0 \in 0 .. n /\ \A k \in 1 .. n : k \in 0 .. n /\ k - 1 \in 0 .. n /\ k # 0
    BY <1>1
  <1>6. v[0] = 0
    BY <1>4, <1>5
  <1>7. \A k \in 1 .. n : Prefix_value(g, k) = 16 * Prefix_value(g, k - 1) + g[k]
    <2> SUFFICES ASSUME NEW k \in 1 .. n PROVE Prefix_value(g, k) = 16 * Prefix_value(g, k - 1) + g[k]
      OBVIOUS
    <2>1. v[k] = 16 * v[k - 1] + g[k]
      BY <1>4, <1>5, Zenon
    <2>2. Prefix_value(g, k) = v[k] /\ Prefix_value(g, k - 1) = v[k - 1]
      BY <1>3, <1>5, Zenon
    <2> QED BY <2>1, <2>2
  <1>8. \A k \in 0 .. n : v[k] \in Nat
    BY <1>2
  <1>9. Prefix_value(g, n) = Value(g) /\ Prefix_value(g, 0) = 0 /\ \A k \in 0 .. n : Prefix_value(g, k) \in Nat
    BY <1>2, <1>3, <1>5, <1>6, <1>8, Zenon
  <1> QED BY <1>1, <1>7, <1>9, Zenon

(* A value that does not fit a byte does not get to fit it again.           *)
LEMMA ValueGrows ==
    ASSUME NEW g \in Seq(Digits), NEW k \in 0 .. Len(g), Prefix_value(g, k) > 255
    PROVE  Value(g) > 255
  <1> DEFINE n == Len(g)
             S == {x \in Nat : x > 255}
             h == [j \in 0 .. n - k |-> Prefix_value(g, k + j)]
  <1>1. n \in Nat /\ n - k \in Nat /\ n - k \in 0 .. n - k /\ k + (n - k) = n /\ 0 \in 0 .. n - k /\ k + 0 = k
    OBVIOUS
  <1>2. h[0] \in S
    <2>1. h[0] = Prefix_value(g, k)
      BY <1>1
    <2> HIDE DEF h
    <2> QED BY <2>1, PrefixValues
  <1>3. \A j \in 1 .. n - k : h[j - 1] \in S => h[j] \in S
    <2> SUFFICES ASSUME NEW j \in 1 .. n - k, h[j - 1] \in S PROVE h[j] \in S
      OBVIOUS
    <2>1. /\ j \in 0 .. n - k /\ j - 1 \in 0 .. n - k /\ k + j \in 1 .. n
          /\ k + (j - 1) = (k + j) - 1
      BY <1>1
    <2>2. h[j] = Prefix_value(g, k + j) /\ h[j - 1] = Prefix_value(g, (k + j) - 1)
      BY <2>1
    <2>3. Prefix_value(g, k + j) = 16 * Prefix_value(g, (k + j) - 1) + g[k + j] /\ g[k + j] \in Nat
      BY <2>1, PrefixValues
    <2>4. \A x, d \in Nat : x > 255 => 16 * x + d > 255 /\ 16 * x + d \in Nat
      OBVIOUS
    <2> HIDE DEF h
    <2> QED BY <2>2, <2>3, <2>4
  <1> HIDE DEF h
  <1>4. \A j \in 0 .. n - k : h[j] \in S
    BY <1>1, <1>2, <1>3, StaysIn
  <1>5. h[n - k] = Prefix_value(g, n)
    BY <1>1 DEF h
  <1> QED BY <1>1, <1>4, <1>5, PrefixValues

(* A group is read: the value so far, until a digit or the value is wrong.  *)
Byte_so_far(g, j) == (\A l \in 1 .. j : Is_hex(g[l])) /\ Prefix_value(g, j) <= 255

In_group(begin, g, j, s) ==
    IF begin.ret # 0 \/ begin.i = 6 THEN s = begin
    ELSE IF Byte_so_far(g, j)
    THEN s = [mac |-> begin.mac, i |-> begin.i, value |-> Prefix_value(g, j), ret |-> 0]
    ELSE /\ s.mac = begin.mac /\ s.ret # 0
         /\ s.ret = -2 => \E l \in 1 .. j : Prefix_value(g, l) > 255

LEMMA ReadingIs ==
    ASSUME NEW s \in Reading
    PROVE  /\ s = [mac |-> s.mac, i |-> s.i, value |-> s.value, ret |-> s.ret]
           /\ \A x : [s EXCEPT !.ret = x] = [mac |-> s.mac, i |-> s.i, value |-> s.value, ret |-> x]
           /\ \A x : [s EXCEPT !.value = x] = [mac |-> s.mac, i |-> s.i, value |-> x, ret |-> s.ret]
           /\ s.mac \in Bytes /\ s.i \in 0 .. 6 /\ s.value \in Octet /\ s.ret \in {0, -1, -2}
  BY DEF Reading

LEMMA GroupStep ==
    ASSUME NEW g \in Seq(Digits), NEW begin \in Reading, NEW j \in 1 .. Len(g), NEW s,
           In_group(begin, g, j - 1, s)
    PROVE  In_group(begin, g, j, Char_read(s, g[j], COLON))
  <1> DEFINE c == g[j]
             t == Char_read(s, c, COLON)
             u == Prefix_value(g, j - 1)
             v == Prefix_value(g, j)
  <1>1. /\ c \in Nat /\ c # COLON /\ u \in Nat /\ v = 16 * u + c /\ v \in Nat
        /\ j \in Nat /\ j - 1 \in Nat /\ (u > 255 => v > 255)
        /\ \A l \in 1 .. j : l = j \/ l \in 1 .. j - 1
        /\ \A l \in 1 .. j - 1 : l \in 1 .. j
    <2>1. c \in Nat /\ c # COLON /\ Len(g) \in Nat
      BY GroupFacts
    <2>2. j - 1 \in 0 .. Len(g) /\ j \in 0 .. Len(g)
      BY <2>1
    <2>3. v = 16 * u + c /\ u \in Nat /\ v \in Nat
      BY <2>2, PrefixValues
    <2> HIDE DEF u, v, c
    <2> QED BY <2>1, <2>3
  <1>2. CASE begin.ret # 0 \/ begin.i = 6
    BY <1>2 DEF In_group, Char_read
  <1>3. CASE ~ (begin.ret # 0 \/ begin.i = 6) /\ ~ Byte_so_far(g, j - 1)
    <2>1. /\ s.mac = begin.mac /\ s.ret # 0
          /\ s.ret = -2 => \E l \in 1 .. j - 1 : Prefix_value(g, l) > 255
      BY <1>3 DEF In_group
    <2>2. t = s
      BY <2>1 DEF Char_read
    <2>3. ~ Byte_so_far(g, j)
      <3>1. ASSUME Byte_so_far(g, j) PROVE Byte_so_far(g, j - 1)
        <4>1. v <= 255 /\ \A l \in 1 .. j : Is_hex(g[l])
          BY <3>1 DEF Byte_so_far
        <4>2. u <= 255
          <5> HIDE DEF u, v, c
          <5> QED BY <1>1, <4>1
        <4> QED BY <1>1, <4>1, <4>2 DEF Byte_so_far
      <3> QED BY <1>3, <3>1
    <2>4. t.mac = begin.mac /\ t.ret # 0 /\ (t.ret = -2 => \E l \in 1 .. j : Prefix_value(g, l) > 255)
      BY <1>1, <2>1, <2>2
    <2> QED BY <1>3, <2>3, <2>4 DEF In_group
  <1>4. CASE ~ (begin.ret # 0 \/ begin.i = 6) /\ Byte_so_far(g, j - 1)
    <2>1. s = [mac |-> begin.mac, i |-> begin.i, value |-> u, ret |-> 0]
      BY <1>4 DEF In_group
    <2>2. u \in Octet /\ s \in Reading
      <3>1. u \in Octet
        <4>1. u <= 255
          BY <1>4 DEF Byte_so_far
        <4> HIDE DEF u
        <4> QED BY <1>1, <4>1 DEF Octet
      <3> QED BY <2>1, <3>1, ReadingIs DEF Reading
    <2>3. s.ret = 0 /\ s.i # 6 /\ s.value = u /\ s.mac = begin.mac /\ s.i = begin.i
      BY <1>4, <2>1
    <2> HIDE DEF u, v, c
    <2>4. t = IF ~ Is_hex(c) THEN [s EXCEPT !.ret = -1]
              ELSE IF 16 * u + c > 255 THEN [s EXCEPT !.ret = -2]
              ELSE [s EXCEPT !.value = 16 * u + c]
      BY <1>1, <2>3, Zenon DEF Char_read
    <2> HIDE DEF t
    <2>5. CASE ~ Is_hex(c)
      <3>1. t = [mac |-> begin.mac, i |-> begin.i, value |-> u, ret |-> -1]
        BY <2>2, <2>3, <2>4, <2>5, ReadingIs
      <3>2. ~ Byte_so_far(g, j)
        BY <1>1, <2>5 DEF Byte_so_far, c
      <3>3. t.mac = begin.mac /\ t.ret # 0 /\ t.ret # -2
        BY <3>1
      <3> QED BY <1>4, <3>2, <3>3 DEF In_group, t, c
    <2>6. CASE Is_hex(c) /\ v > 255
      <3>1. t = [mac |-> begin.mac, i |-> begin.i, value |-> u, ret |-> -2]
        <4>1. t = [s EXCEPT !.ret = -2]
          BY <1>1, <2>4, <2>6
        <4> QED BY <2>2, <2>3, <4>1, ReadingIs
      <3>2. ~ Byte_so_far(g, j)
        <4>1. ~ (v <= 255)
          BY <1>1, <2>6
        <4> QED BY <4>1 DEF Byte_so_far, v
      <3>3. t.mac = begin.mac /\ t.ret # 0 /\ \E l \in 1 .. j : Prefix_value(g, l) > 255
        <4>1. j \in 1 .. j
          BY <1>1
        <4> QED BY <2>6, <3>1, <4>1 DEF v
      <3> QED BY <1>4, <3>2, <3>3 DEF In_group, t, c
    <2>7. CASE Is_hex(c) /\ ~ (v > 255)
      <3>1. t = [mac |-> begin.mac, i |-> begin.i, value |-> v, ret |-> 0]
        <4>1. t = [s EXCEPT !.value = v]
          BY <1>1, <2>4, <2>7
        <4> QED BY <2>2, <2>3, <4>1, ReadingIs
      <3>2. Byte_so_far(g, j)
        <4>1. v <= 255
          BY <1>1, <2>7
        <4>2. \A l \in 1 .. j : Is_hex(g[l])
          BY <1>1, <1>4, <2>7 DEF Byte_so_far, c
        <4> QED BY <4>1, <4>2 DEF Byte_so_far, v
      <3> QED BY <1>4, <3>1, <3>2 DEF In_group, t, c, v
    <2> QED BY <2>5, <2>6, <2>7
  <1> QED BY <1>2, <1>3, <1>4

(* The loop over a group that the text has at p.                            *)
LEMMA GroupRead ==
    ASSUME NEW g \in Seq(Digits), NEW h, NEW p \in Nat, h[p] \in Reading,
           h[p].value = 0 \/ h[p].ret # 0 \/ h[p].i = 6,
           \A j \in 1 .. Len(g) : h[p + j] = Char_read(h[p + (j - 1)], g[j], COLON)
    PROVE  In_group(h[p], g, Len(g), h[p + Len(g)])
  <1> DEFINE n == Len(g)
             k == [j \in 0 .. n |-> In_group(h[p], g, j, h[p + j])]
             S == {TRUE}
  <1>1. n \in Nat /\ 0 \in 0 .. n /\ n \in 0 .. n /\ p + 0 = p
    BY GroupFacts
  <1>2. In_group(h[p], g, 0, h[p])
    <2>1. Byte_so_far(g, 0)
      <3>1. Prefix_value(g, 0) = 0
        BY PrefixValues
      <3> QED BY <3>1 DEF Byte_so_far
    <2>2. CASE h[p].ret # 0 \/ h[p].i = 6
      BY <2>2 DEF In_group
    <2>3. CASE ~ (h[p].ret # 0 \/ h[p].i = 6)
      <3>1. h[p] = [mac |-> h[p].mac, i |-> h[p].i, value |-> h[p].value, ret |-> h[p].ret]
        BY ReadingIs
      <3>2. h[p].value = 0 /\ h[p].ret = 0 /\ Prefix_value(g, 0) = 0
        BY <2>3, PrefixValues
      <3>3. h[p] = [mac |-> h[p].mac, i |-> h[p].i, value |-> Prefix_value(g, 0), ret |-> 0]
        BY <3>1, <3>2
      <3> QED BY <2>1, <2>3, <3>3 DEF In_group
    <2> QED BY <2>2, <2>3
  <1>3. ASSUME NEW j \in 1 .. n, In_group(h[p], g, j - 1, h[p + (j - 1)])
        PROVE  In_group(h[p], g, j, h[p + j])
    <2>1. h[p + j] = Char_read(h[p + (j - 1)], g[j], COLON)
      OBVIOUS
    <2> QED BY <1>3, <2>1, GroupStep
  <1>4. k[0] \in S
    BY <1>1, <1>2
  <1>5. \A j \in 1 .. n : k[j - 1] \in S => k[j] \in S
    <2> SUFFICES ASSUME NEW j \in 1 .. n, k[j - 1] \in S PROVE k[j] \in S
      OBVIOUS
    <2>1. j \in 0 .. n /\ j - 1 \in 0 .. n
      BY <1>1
    <2>2. In_group(h[p], g, j - 1, h[p + (j - 1)])
      BY <2>1
    <2> QED BY <1>3, <2>1, <2>2
  <1> HIDE DEF k, S, n
  <1>6. \A j \in 0 .. n : k[j] \in S
    BY <1>1, <1>4, <1>5, StaysIn
  <1> QED BY <1>1, <1>6 DEF k, S, n

LEMMA ByteSoFar ==
    ASSUME NEW g \in Seq(Digits)
    PROVE  Byte_so_far(g, Len(g)) <=> IsByte(g)
  <1>1. Prefix_value(g, Len(g)) = Value(g) /\ Value(g) \in Nat
    <2>1. Len(g) \in 0 .. Len(g)
      BY GroupFacts
    <2> QED BY <2>1, PrefixValues
  <1>2. DOMAIN g = 1 .. Len(g)
    OBVIOUS
  <1>3. Value(g) <= 255 <=> Value(g) \in Octet
    <2>1. \A v \in Nat : v <= 255 <=> v \in Octet
      BY DEF Octet
    <2> QED BY <1>1, <2>1, Zenon
  <1> QED BY <1>1, <1>2, <1>3 DEF Byte_so_far, IsByte

(* The groups are read one after the other: where each is in the text.      *)
Chars == 0 .. WEIRD

Joins(t, groups) ==
    t = [k \in 1 .. Len(groups) |-> IF k = 1 THEN groups[1] ELSE t[k - 1] \o <<COLON>> \o groups[k]]

LEMMA JoinsExist ==
    ASSUME NEW groups \in Seq(Seq(Digits)), groups # <<>>
    PROVE  \E t \in [1 .. Len(groups) -> Seq(Chars)] :
              /\ t[1] = groups[1]
              /\ \A k \in 1 .. Len(groups) - 1 : t[k + 1] = t[k] \o <<COLON>> \o groups[k + 1]
              /\ Joined(groups) = t[Len(groups)]
  <1> DEFINE n == Len(groups)
             step == [q \in (1 .. n) \X Seq(Chars) |->
                        IF q[1] < n THEN q[2] \o <<COLON>> \o groups[q[1] + 1] ELSE q[2]]
             u == CHOOSE t : Joins(t, groups)
             S == {TRUE}
  <1>1. n \in Nat /\ n >= 1 /\ \A k \in 1 .. n : groups[k] \in Seq(Chars)
    <2>1. n \in Nat /\ n >= 1 /\ \A k \in 1 .. n : groups[k] \in Seq(Digits)
      OBVIOUS
    <2>2. Seq(Digits) \subseteq Seq(Chars)
      <3>1. Digits \subseteq Chars
        BY DEF Digits, Chars
      <3> QED BY <3>1
    <2> QED BY <2>1, <2>2
  <1>2. \A s, g \in Seq(Chars) : s \o <<COLON>> \o g \in Seq(Chars)
    <2>1. COLON \in Chars
      BY DEF COLON, Chars, WEIRD
    <2>2. <<COLON>> \in Seq(Chars)
      BY <2>1
    <2>3. \A s, g \in Seq(Chars) : s \o g \in Seq(Chars)
      OBVIOUS
    <2> QED BY <2>2, <2>3
  <1>3. step \in [(1 .. n) \X Seq(Chars) -> Seq(Chars)]
    <2> SUFFICES ASSUME NEW q \in (1 .. n) \X Seq(Chars), q[1] < n
                 PROVE  q[2] \o <<COLON>> \o groups[q[1] + 1] \in Seq(Chars)
      OBVIOUS
    <2>1. q[2] \in Seq(Chars) /\ q[1] + 1 \in 1 .. n
      BY <1>1
    <2> QED BY <1>1, <1>2, <2>1
  <1>4. PICK t \in [1 .. n -> Seq(Chars)] : Recurs(t, n, groups[1], step)
    <2>1. groups[1] \in Seq(Chars)
      BY <1>1
    <2> HIDE DEF step, n
    <2> QED BY <1>1, <1>3, <2>1, RecursionExists
  <1>5. ASSUME NEW k \in 1 .. n - 1 PROVE t[k + 1] = t[k] \o <<COLON>> \o groups[k + 1]
    <2>1. t[k + 1] = step[<<k, t[k]>>]
      BY <1>4 DEF Recurs
    <2>2. k \in 1 .. n /\ k < n /\ t[k] \in Seq(Chars)
      <3>1. k \in 1 .. n /\ k < n
        BY <1>1
      <3> HIDE DEF n, step
      <3> QED BY <1>4, <3>1
    <2>3. step[<<k, t[k]>>] = t[k] \o <<COLON>> \o groups[k + 1]
      <3> DEFINE F(x, y) == x \o <<COLON>> \o groups[y]
      <3>1. \A q \in (1 .. n) \X Seq(Chars) : step[q] = IF q[1] < n THEN F(q[2], q[1] + 1) ELSE q[2]
        OBVIOUS
      <3> HIDE DEF F, step
      <3>2. step[<<k, t[k]>>] = F(t[k], k + 1)
        BY <2>2, <3>1
      <3> QED BY <3>2 DEF F
    <2> QED BY <2>1, <2>3
  <1>6. t[1] = groups[1]
    BY <1>4 DEF Recurs
  <1>7. Joins(t, groups)
    <2>1. ASSUME NEW k \in 1 .. n PROVE t[k] = IF k = 1 THEN groups[1] ELSE t[k - 1] \o <<COLON>> \o groups[k]
      <3>1. k # 1 => k - 1 \in 1 .. n - 1 /\ (k - 1) + 1 = k
        BY <1>1
      <3> QED BY <1>5, <1>6, <3>1
    <2>2. t = [k \in 1 .. n |-> t[k]]
      OBVIOUS
    <2> QED BY <2>1, <2>2 DEF Joins
  <1>8. Joins(u, groups) /\ Joined(groups) = u[n]
    BY <1>7 DEF Joined, Joins
  <1> HIDE DEF u
  <1>9. u[n] = t[n]
    <2> DEFINE A == {k \in 1 .. n : u[k] = t[k]}
    <2>1. \A k \in 1 .. n : u[k] = IF k = 1 THEN groups[1] ELSE u[k - 1] \o <<COLON>> \o groups[k]
      BY <1>8, Zenon DEF Joins
    <2>2. 1 \in A
      <3>1. 1 \in 1 .. n
        BY <1>1
      <3> QED BY <1>6, <2>1, <3>1
    <2>3. ASSUME NEW k \in 1 .. n - 1, k \in A PROVE k + 1 \in A
      <3>1. k + 1 \in 1 .. n /\ k + 1 # 1 /\ (k + 1) - 1 = k
        BY <1>1
      <3>2. u[k + 1] = u[k] \o <<COLON>> \o groups[k + 1]
        BY <2>1, <3>1
      <3> QED BY <1>5, <2>3, <3>1, <3>2
    <2> HIDE DEF A, n
    <2>4. 1 .. n \subseteq A
      BY <1>1, <2>2, <2>3, IntervalInduction
    <2>5. n \in A
      BY <1>1, <2>4
    <2> QED BY <2>5 DEF A
  <1> QED BY <1>5, <1>6, <1>8, <1>9

(* One text begins with another.                                            *)
Begins(s, t) == Len(s) <= Len(t) /\ \A i \in 1 .. Len(s) : t[i] = s[i]

LEMMA ColonBetween ==
    ASSUME NEW s \in Seq(Chars), NEW g \in Seq(Chars)
    PROVE  LET t == s \o <<COLON>> \o g
           IN  /\ t \in Seq(Chars) /\ Len(t) = Len(s) + 1 + Len(g) /\ Begins(s, t)
               /\ t[Len(s) + 1] = COLON
               /\ \A j \in 1 .. Len(g) : t[Len(s) + 1 + j] = g[j]
  <1>1. COLON \in Chars
    BY DEF COLON, Chars, WEIRD
  <1> DEFINE u == s \o <<COLON>>
             t == u \o g
  <1>2. Len(s) \in Nat /\ Len(g) \in Nat
    OBVIOUS
  <1>3. /\ u \in Seq(Chars) /\ Len(u) = Len(s) + 1 /\ u[Len(s) + 1] = COLON
        /\ \A i \in 1 .. Len(s) : u[i] = s[i]
    BY <1>1
  <1> HIDE DEF u
  <1>4. t \in Seq(Chars) /\ Len(t) = Len(u) + Len(g)
    BY <1>3
  <1>5. \A i \in 1 .. Len(u) : t[i] = u[i]
    BY <1>3
  <1>6. \A j \in 1 .. Len(g) : t[Len(u) + j] = g[j]
    BY <1>3
  <1>7. \A i \in 1 .. Len(s) : i \in 1 .. Len(u)
    BY <1>2, <1>3
  <1>8. Len(u) \in 1 .. Len(u) /\ Len(s) <= Len(u) + Len(g)
    BY <1>2, <1>3
  <1> HIDE DEF t
  <1>9. t \in Seq(Chars) /\ Len(t) = Len(s) + 1 + Len(g) /\ t[Len(s) + 1] = COLON
    BY <1>3, <1>4, <1>5, <1>8
  <1>10. Begins(s, t)
    BY <1>3, <1>4, <1>5, <1>7, <1>8 DEF Begins
  <1>11. \A j \in 1 .. Len(g) : t[Len(s) + 1 + j] = g[j]
    BY <1>3, <1>6
  <1> QED BY <1>9, <1>10, <1>11 DEF t, u

LEMMA BeginsOn ==
    ASSUME NEW r \in Seq(Chars), NEW s \in Seq(Chars), NEW t \in Seq(Chars)
    PROVE  Begins(r, r) /\ (Begins(r, s) /\ Begins(s, t) => Begins(r, t))
  <1>1. Len(r) \in Nat /\ Len(s) \in Nat /\ Len(t) \in Nat
    OBVIOUS
  <1>2. Len(r) <= Len(s) => \A i \in 1 .. Len(r) : i \in 1 .. Len(s)
    BY <1>1
  <1>3. Len(r) <= Len(s) /\ Len(s) <= Len(t) => Len(r) <= Len(t)
    BY <1>1
  <1> QED BY <1>1, <1>2, <1>3 DEF Begins

(* Where group k begins: p characters before it, the last one a colon.      *)
Lies(text, groups, k, p) ==
    /\ p \in Nat /\ p + Len(groups[k]) <= Len(text)
    /\ \A j \in 1 .. Len(groups[k]) : text[p + j] = groups[k][j]

LEMMA GroupsLie ==
    ASSUME NEW groups \in Seq(Seq(Digits)), groups # <<>>
    PROVE  /\ Joined(groups) \in Seq(Chars)
           /\ \E at \in [1 .. Len(groups) -> Nat] :
                /\ at[1] = 0
                /\ at[Len(groups)] + Len(groups[Len(groups)]) = Len(Joined(groups))
                /\ \A k \in 1 .. Len(groups) : Lies(Joined(groups), groups, k, at[k])
                /\ \A k \in 1 .. Len(groups) - 1 :
                      at[k + 1] = at[k] + Len(groups[k]) + 1 /\ Joined(groups)[at[k + 1]] = COLON
  <1> DEFINE n == Len(groups)
             text == Joined(groups)
  <1>1. n \in Nat /\ n >= 1 /\ \A k \in 1 .. n : groups[k] \in Seq(Chars) /\ Len(groups[k]) \in Nat
    <2>1. n \in Nat /\ n >= 1 /\ \A k \in 1 .. n : groups[k] \in Seq(Digits)
      OBVIOUS
    <2>2. Digits \subseteq Chars
      BY DEF Digits, Chars
    <2>3. Seq(Digits) \subseteq Seq(Chars) /\ \A g \in Seq(Digits) : Len(g) \in Nat
      BY <2>2
    <2> QED BY <2>1, <2>3
  <1>2. PICK t \in [1 .. n -> Seq(Chars)] :
              /\ t[1] = groups[1]
              /\ \A k \in 1 .. n - 1 : t[k + 1] = t[k] \o <<COLON>> \o groups[k + 1]
              /\ text = t[n]
    BY JoinsExist
  <1> HIDE DEF text, n
  <1>3. ASSUME NEW k \in 1 .. n - 1
        PROVE  /\ k \in 1 .. n /\ k + 1 \in 1 .. n
               /\ Len(t[k + 1]) = Len(t[k]) + 1 + Len(groups[k + 1]) /\ Begins(t[k], t[k + 1])
               /\ t[k + 1][Len(t[k]) + 1] = COLON
               /\ \A j \in 1 .. Len(groups[k + 1]) : t[k + 1][Len(t[k]) + 1 + j] = groups[k + 1][j]
    <2>1. k \in 1 .. n /\ k + 1 \in 1 .. n
      BY <1>1
    <2>2. t[k] \in Seq(Chars) /\ groups[k + 1] \in Seq(Chars)
      BY <1>1, <2>1
    <2> DEFINE s == t[k]
               g == groups[k + 1]
               v == s \o <<COLON>> \o g
    <2>3. t[k + 1] = v
      BY <1>2
    <2>4. /\ v \in Seq(Chars) /\ Len(v) = Len(s) + 1 + Len(g) /\ Begins(s, v)
          /\ v[Len(s) + 1] = COLON
          /\ \A j \in 1 .. Len(g) : v[Len(s) + 1 + j] = g[j]
      <3> HIDE DEF s, g
      <3> QED BY <2>2, ColonBetween DEF s, g
    <2> HIDE DEF v
    <2> QED BY <2>1, <2>3, <2>4
  <1>4. ASSUME NEW k \in 1 .. n PROVE Begins(t[k], text)
    <2> DEFINE h == [m \in 0 .. n - k |-> Begins(t[k], t[k + m])]
               S == {TRUE}
    <2>1. n - k \in Nat /\ 0 \in 0 .. n - k /\ n - k \in 0 .. n - k /\ k + 0 = k /\ k + (n - k) = n
      BY <1>1
    <2>2. h[0] \in S
      BY <2>1, BeginsOn
    <2>3. \A m \in 1 .. n - k : h[m - 1] \in S => h[m] \in S
      <3> SUFFICES ASSUME NEW m \in 1 .. n - k, h[m - 1] \in S PROVE h[m] \in S
        OBVIOUS
      <3>1. /\ m \in 0 .. n - k /\ m - 1 \in 0 .. n - k /\ k + (m - 1) \in 1 .. n - 1
            /\ (k + (m - 1)) + 1 = k + m /\ k + m \in 1 .. n
        BY <1>1
      <3>2. Begins(t[k], t[k + (m - 1)])
        BY <3>1
      <3>3. Begins(t[k + (m - 1)], t[k + m]) /\ k + (m - 1) \in 1 .. n
        <4>1. Begins(t[k + (m - 1)], t[(k + (m - 1)) + 1])
          BY <1>3, <3>1
        <4> QED BY <1>3, <3>1, <4>1
      <3>4. t[k] \in Seq(Chars) /\ t[k + (m - 1)] \in Seq(Chars) /\ t[k + m] \in Seq(Chars)
        BY <3>1, <3>3
      <3>5. Begins(t[k], t[k + m])
        BY <3>2, <3>3, <3>4, BeginsOn
      <3> QED BY <3>1, <3>5
    <2> HIDE DEF h, S
    <2>4. \A m \in 0 .. n - k : h[m] \in S
      BY <2>1, <2>2, <2>3, StaysIn
    <2> QED BY <1>2, <2>1, <2>4 DEF h, S
  <1> DEFINE at == [k \in 1 .. n |-> IF k = 1 THEN 0 ELSE Len(t[k - 1]) + 1]
  <1>5. at \in [1 .. n -> Nat] /\ at[1] = 0
    <2>1. ASSUME NEW k \in 1 .. n, k # 1 PROVE Len(t[k - 1]) \in Nat
      <3>1. k - 1 \in 1 .. n
        BY <1>1, <2>1
      <3>2. t[k - 1] \in Seq(Chars)
        BY <3>1
      <3> QED BY <3>2
    <2>2. 1 \in 1 .. n
      BY <1>1
    <2> QED BY <2>1, <2>2
  <1>6. ASSUME NEW k \in 1 .. n
        PROVE  /\ at[k] + Len(groups[k]) = Len(t[k])
               /\ \A j \in 1 .. Len(groups[k]) : t[k][at[k] + j] = groups[k][j]
    <2>1. CASE k = 1
      <3>1. at[k] = 0 /\ t[k] = groups[k] /\ Len(groups[k]) \in Nat
        BY <1>1, <1>2, <2>1
      <3>2. \A j \in 1 .. Len(groups[k]) : 0 + j = j
        BY <3>1
      <3> HIDE DEF at
      <3> QED BY <3>1, <3>2
    <2>2. CASE k # 1
      <3> DEFINE l == k - 1
      <3>1. l \in 1 .. n - 1 /\ l + 1 = k /\ at[k] = Len(t[l]) + 1
        BY <1>1, <2>2
      <3> HIDE DEF at, l
      <3>2. /\ Len(t[l + 1]) = Len(t[l]) + 1 + Len(groups[l + 1])
            /\ \A j \in 1 .. Len(groups[l + 1]) : t[l + 1][Len(t[l]) + 1 + j] = groups[l + 1][j]
        BY <1>3, <3>1
      <3> QED BY <3>1, <3>2
    <2> QED BY <2>1, <2>2
  <1>7. ASSUME NEW k \in 1 .. n PROVE Lies(text, groups, k, at[k])
    <2>1. at[k] \in Nat /\ Len(groups[k]) \in Nat /\ Len(t[k]) \in Nat
      <3>1. t[k] \in Seq(Chars)
        OBVIOUS
      <3> HIDE DEF at
      <3> QED BY <1>1, <1>5, <3>1
    <2>2. Begins(t[k], text)
      BY <1>4
    <2> HIDE DEF at
    <2>3. \A j \in 1 .. Len(groups[k]) : at[k] + j \in 1 .. Len(t[k])
      <3>1. at[k] + Len(groups[k]) = Len(t[k])
        BY <1>6
      <3> QED BY <2>1, <3>1
    <2> QED BY <1>6, <2>1, <2>2, <2>3 DEF Lies, Begins
  <1>8. ASSUME NEW k \in 1 .. n - 1
        PROVE  at[k + 1] = at[k] + Len(groups[k]) + 1 /\ text[at[k + 1]] = COLON
    <2>1. k \in 1 .. n /\ k + 1 \in 1 .. n /\ k + 1 # 1 /\ (k + 1) - 1 = k /\ Len(t[k]) \in Nat
      <3>1. k \in 1 .. n /\ k + 1 \in 1 .. n /\ k + 1 # 1 /\ (k + 1) - 1 = k
        BY <1>1
      <3>2. t[k] \in Seq(Chars)
        BY <3>1
      <3> QED BY <3>1, <3>2
    <2>2. at[k + 1] = Len(t[k]) + 1
      BY <2>1
    <2> HIDE DEF at
    <2>3. at[k + 1] = at[k] + Len(groups[k]) + 1
      BY <1>6, <2>1, <2>2
    <2>4. Begins(t[k + 1], text) /\ Len(t[k]) + 1 \in 1 .. Len(t[k + 1])
      <3>1. Len(t[k + 1]) = Len(t[k]) + 1 + Len(groups[k + 1]) /\ Len(groups[k + 1]) \in Nat
        BY <1>1, <1>3, <2>1
      <3>2. \A x, y, z \in Nat : x = y + 1 + z => y + 1 \in 1 .. x
        OBVIOUS
      <3>3. Len(t[k + 1]) \in Nat
        <4>1. t[k + 1] \in Seq(Chars)
          BY <2>1
        <4> QED BY <4>1
      <3>4. Len(t[k]) + 1 \in 1 .. Len(t[k + 1])
        BY <2>1, <3>1, <3>2, <3>3, Zenon
      <3> QED BY <1>4, <2>1, <3>4, Zenon
    <2>5. text[at[k + 1]] = t[k + 1][Len(t[k]) + 1]
      BY <2>2, <2>4 DEF Begins
    <2> QED BY <1>3, <2>3, <2>5
  <1>9. text \in Seq(Chars) /\ n \in 1 .. n /\ at[n] + Len(groups[n]) = Len(text)
    <2>1. n \in 1 .. n
      BY <1>1
    <2> HIDE DEF at
    <2> QED BY <1>2, <1>6, <2>1
  <1> HIDE DEF at
  <1> QED BY <1>5, <1>7, <1>8, <1>9 DEF text, n

(* Every state of the loop is one of those.                                 *)
LEMMA ReadsTyped ==
    ASSUME NEW mac \in Bytes, NEW hex, NEW len \in Nat, NEW delim
    PROVE  LET h == CHOOSE read : Reads(read, mac, hex, len, delim)
           IN  Reads(h, mac, hex, len, delim) /\ \A i \in 0 .. len : h[i] \in Reading
  <1> DEFINE step == [q \in (1 .. len) \X Reading |-> Char_read(q[2], hex[q[1]], delim)]
             b == Begin(mac)
             h == CHOOSE read : Reads(read, mac, hex, len, delim)
  <1>1. b \in Reading
    BY DEF Begin, Reading, Octet
  <1>2. step \in [(1 .. len) \X Reading -> Reading]
    BY CharType
  <1>3. PICK g \in [0 .. len -> Reading] : Recurs0(g, len, b, step)
    <2> HIDE DEF b, step
    <2> QED BY <1>1, <1>2, RecursionFrom
  <1>4. ASSUME NEW k \in 0 .. len
        PROVE  g[k] = IF k = 0 THEN b ELSE Char_read(g[k - 1], hex[k], delim)
    <2>1. CASE k = 0
      BY <1>3, <2>1 DEF Recurs0
    <2>2. CASE k # 0
      <3>1. k \in 1 .. len /\ k - 1 \in 0 .. len
        BY <2>2
      <3>2. g[k] = step[<<k, g[k - 1]>>] /\ g[k - 1] \in Reading
        BY <1>3, <3>1 DEF Recurs0
      <3> QED BY <2>2, <3>1, <3>2
    <2> QED BY <2>1, <2>2
  <1>5. Reads(g, mac, hex, len, delim)
    <2> HIDE DEF b, step
    <2>1. g = [k \in 0 .. len |-> g[k]]
      BY <1>3
    <2> QED BY <1>4, <2>1 DEF Reads, b
  <1>6. Reads(h, mac, hex, len, delim)
    BY <1>5
  <1> HIDE DEF h, b, step
  <1>7. h[0] = Begin(mac) /\ \A k \in 1 .. len : h[k] = Char_read(h[k - 1], hex[k], delim)
    BY <1>6 DEF Reads
  <1>8. h[0] \in Reading
    BY <1>1, <1>7 DEF b
  <1>9. \A k \in 1 .. len : h[k - 1] \in Reading => h[k] \in Reading
    BY <1>7, CharType
  <1>10. \A k \in 0 .. len : h[k] \in Reading
    BY <1>8, <1>9, StaysIn
  <1> QED BY <1>6, <1>10 DEF h

(* What mac holds when i groups have been stored in an array that nobody    *)
(* has written before.                                                      *)
Unwritten == [k \in 1 .. 6 |-> GARBAGE]

Stored(groups, i) == [j \in 1 .. 6 |-> IF j <= i THEN Value(groups[j]) ELSE GARBAGE]

LEMMA StoredNext ==
    ASSUME NEW groups, NEW i \in 0 .. 5
    PROVE  /\ Stored(groups, 0) = Unwritten
           /\ [Stored(groups, i) EXCEPT ![i + 1] = Value(groups[i + 1])] = Stored(groups, i + 1)
  <1>1. \A j \in 1 .. 6 : ~ (j <= 0) /\ (j <= i + 1 <=> j <= i \/ j = i + 1) /\ (j = i + 1 => ~ (j <= i))
    OBVIOUS
  <1>2. i + 1 \in 1 .. 6
    OBVIOUS
  <1> DEFINE V(j) == Value(groups[j])
  <1>3. Stored(groups, i) = [j \in 1 .. 6 |-> IF j <= i THEN V(j) ELSE GARBAGE]
    BY DEF Stored
  <1>4. Stored(groups, i + 1) = [j \in 1 .. 6 |-> IF j <= i + 1 THEN V(j) ELSE GARBAGE]
    BY DEF Stored
  <1>5. Stored(groups, 0) = Unwritten
    BY <1>1 DEF Stored, Unwritten
  <1> HIDE DEF V
  <1>6. [Stored(groups, i) EXCEPT ![i + 1] = V(i + 1)] = Stored(groups, i + 1)
    BY <1>1, <1>2, <1>3, <1>4
  <1> QED BY <1>5, <1>6 DEF V

(* After the first k groups: all of them bytes, the last one not stored yet,*)
(* or the first that is none has been met.                                  *)
All_bytes(groups, k, s) ==
    /\ \A j \in 1 .. k : j <= 6 => IsByte(groups[j])
    /\ s.ret = 0
    /\ s.i = IF k <= 6 THEN k - 1 ELSE 6
    /\ s.mac = Stored(groups, IF k <= 6 THEN k - 1 ELSE 6)
    /\ k <= 6 => s.value = Value(groups[k])

Wrong_at(groups, b, s) ==
    /\ b <= 6 /\ ~ IsByte(groups[b])
    /\ \A j \in 1 .. b - 1 : IsByte(groups[j])
    /\ s.ret # 0 /\ s.mac = Stored(groups, b - 1)
    /\ s.ret = -2 => \E l \in 1 .. Len(groups[b]) : Prefix_value(groups[b], l) > 255

After(groups, k, s) == All_bytes(groups, k, s) \/ \E b \in 1 .. k : Wrong_at(groups, b, s)

(* A group is read from where it begins.                                    *)
Before(groups, k, s) ==
    /\ s \in Reading /\ (s.value = 0 \/ s.ret # 0 \/ s.i = 6)
    /\ \/ /\ \A j \in 1 .. k - 1 : j <= 6 => IsByte(groups[j])
          /\ s.ret = 0
          /\ s.i = IF k <= 6 THEN k - 1 ELSE 6
          /\ s.mac = Stored(groups, IF k <= 6 THEN k - 1 ELSE 6)
       \/ \E b \in 1 .. k - 1 : Wrong_at(groups, b, s)

LEMMA AfterGroup ==
    ASSUME NEW groups \in Seq(Seq(Digits)), NEW k \in 1 .. Len(groups), NEW s, NEW t,
           Before(groups, k, s), In_group(s, groups[k], Len(groups[k]), t)
    PROVE  After(groups, k, t)
  <1> DEFINE g == groups[k]
  <1>1. g \in Seq(Digits) /\ k \in Nat /\ k >= 1 /\ Len(groups) \in Nat
    OBVIOUS
  <1>2. \A b \in 1 .. k - 1 : b \in 1 .. k
    BY <1>1
  <1>3. \A j \in 1 .. k : j = k \/ j \in 1 .. k - 1
    BY <1>1
  <1>4. Byte_so_far(g, Len(g)) <=> IsByte(g)
    BY <1>1, ByteSoFar
  <1>5. CASE \E b \in 1 .. k - 1 : Wrong_at(groups, b, s)
    <2>1. PICK b \in 1 .. k - 1 : Wrong_at(groups, b, s)
      BY <1>5
    <2>2. s.ret # 0
      BY <2>1 DEF Wrong_at
    <2>3. t = s
      BY <2>2 DEF In_group
    <2> QED BY <1>2, <2>1, <2>3 DEF After
  <1>6. ASSUME \A j \in 1 .. k - 1 : j <= 6 => IsByte(groups[j]), s.ret = 0,
               s.i = IF k <= 6 THEN k - 1 ELSE 6, s.mac = Stored(groups, IF k <= 6 THEN k - 1 ELSE 6)
        PROVE  After(groups, k, t)
    <2>1. CASE ~ (k <= 6)
      <3>1. t = s /\ s.i = 6
        BY <1>6, <2>1 DEF In_group
      <3>2. \A j \in 1 .. k : j <= 6 => IsByte(groups[j])
        BY <1>3, <1>6, <2>1
      <3>3. All_bytes(groups, k, t)
        BY <1>6, <2>1, <3>1, <3>2 DEF All_bytes
      <3> QED BY <3>3 DEF After
    <2>2. CASE k <= 6
      <3>1. s.i = k - 1 /\ s.mac = Stored(groups, k - 1) /\ s.i # 6
        BY <1>1, <1>6, <2>2
      <3>2. CASE IsByte(g)
        <4>1. t = [mac |-> s.mac, i |-> s.i, value |-> Prefix_value(g, Len(g)), ret |-> 0]
          BY <1>4, <1>6, <3>1, <3>2 DEF In_group
        <4>2. Prefix_value(g, Len(g)) = Value(g)
          BY <1>1, PrefixValues
        <4>3. \A j \in 1 .. k : j <= 6 => IsByte(groups[j])
          BY <1>3, <1>6, <3>2
        <4>4. t.mac = Stored(groups, k - 1) /\ t.i = k - 1 /\ t.value = Value(groups[k]) /\ t.ret = 0
          BY <3>1, <4>1, <4>2
        <4>5. All_bytes(groups, k, t)
          BY <2>2, <4>3, <4>4 DEF All_bytes
        <4> QED BY <4>5 DEF After
      <3>3. CASE ~ IsByte(g)
        <4>1. /\ t.mac = s.mac /\ t.ret # 0
              /\ t.ret = -2 => \E l \in 1 .. Len(g) : Prefix_value(g, l) > 255
          BY <1>4, <1>6, <3>1, <3>3 DEF In_group
        <4>2. \A j \in 1 .. k - 1 : IsByte(groups[j])
          <5>1. \A j \in 1 .. k - 1 : j <= 6
            BY <1>1, <2>2
          <5> QED BY <1>6, <5>1
        <4>3. Wrong_at(groups, k, t)
          BY <2>2, <3>1, <3>3, <4>1, <4>2 DEF Wrong_at
        <4>4. k \in 1 .. k
          BY <1>1
        <4> QED BY <4>3, <4>4 DEF After
      <3> QED BY <3>2, <3>3
    <2> QED BY <2>1, <2>2
  <1> QED BY <1>5, <1>6 DEF Before

(* The colon after it stores it. *)
LEMMA ColonRead ==
    ASSUME NEW groups \in Seq(Seq(Digits)), NEW k \in 1 .. Len(groups) - 1, NEW s \in Reading,
           After(groups, k, s)
    PROVE  Before(groups, k + 1, Char_read(s, COLON, COLON))
  <1> DEFINE t == Char_read(s, COLON, COLON)
  <1>1. k \in Nat /\ k >= 1 /\ (k + 1) - 1 = k
    OBVIOUS
  <1>2. t \in Reading
    BY CharType
  <1>3. CASE \E b \in 1 .. k : Wrong_at(groups, b, s)
    <2>1. PICK b \in 1 .. k : Wrong_at(groups, b, s)
      BY <1>3
    <2>2. s.ret # 0
      BY <2>1 DEF Wrong_at
    <2>3. t = s
      BY <2>2 DEF Char_read
    <2> HIDE DEF t
    <2> QED BY <1>1, <1>2, <2>1, <2>2, <2>3 DEF Before, t
  <1>4. CASE All_bytes(groups, k, s)
    <2>1. CASE ~ (k <= 6)
      <3>1. s.i = 6 /\ t = s
        BY <1>4, <2>1 DEF All_bytes, Char_read
      <3>2. ~ (k + 1 <= 6)
        BY <1>1, <2>1
      <3>3. /\ \A j \in 1 .. k : j <= 6 => IsByte(groups[j])
            /\ s.ret = 0 /\ s.mac = Stored(groups, 6)
        BY <1>4, <2>1 DEF All_bytes
      <3> HIDE DEF t
      <3> QED BY <1>1, <1>2, <3>1, <3>2, <3>3 DEF Before, t
    <2>2. CASE k <= 6
      <3>1. /\ s.i = k - 1 /\ s.ret = 0 /\ s.mac = Stored(groups, k - 1) /\ s.value = Value(groups[k])
            /\ \A j \in 1 .. k : j <= 6 => IsByte(groups[j])
        BY <1>4, <2>2 DEF All_bytes
      <3>2. k - 1 \in 0 .. 5 /\ s.i < 6 /\ s.i # 6 /\ (k - 1) + 1 = k
        BY <1>1, <2>2, <3>1
      <3>3. t = Byte_stored(s)
        BY <3>1, <3>2 DEF Char_read
      <3>4. Byte_stored(s) = [mac |-> [s.mac EXCEPT ![s.i + 1] = s.value], i |-> s.i + 1,
                              value |-> 0, ret |-> s.ret]
        BY <3>2, StoredType
      <3>5. [Stored(groups, k - 1) EXCEPT ![(k - 1) + 1] = Value(groups[(k - 1) + 1])] = Stored(groups, (k - 1) + 1)
        BY <3>2, StoredNext
      <3>6. t.mac = Stored(groups, k) /\ t.i = k /\ t.value = 0 /\ t.ret = 0
        <4> HIDE DEF t
        <4>1. [s.mac EXCEPT ![s.i + 1] = s.value] = Stored(groups, k)
          BY <3>1, <3>2, <3>5
        <4> QED BY <3>1, <3>2, <3>3, <3>4, <4>1
      <3>7. k = IF k + 1 <= 6 THEN (k + 1) - 1 ELSE 6
        BY <1>1, <2>2
      <3> HIDE DEF t
      <3> QED BY <1>1, <1>2, <3>1, <3>6, <3>7 DEF Before, t
    <2> QED BY <2>1, <2>2
  <1> QED BY <1>3, <1>4 DEF After

(* What the loop has done when it has seen all of the text.                 *)
LEMMA GroupsRead ==
    ASSUME NEW groups \in Seq(Seq(Digits)), groups # <<>>
    PROVE  LET text == Joined(groups)
               s    == Read(Unwritten, text, Len(text), COLON)
           IN  /\ Len(text) \in Nat /\ s \in Reading /\ After(groups, Len(groups), s)
               /\ Len(text) > 0 => (text[Len(text)] = COLON <=> groups[Len(groups)] = <<>>)
  <1> DEFINE n == Len(groups)
             text == Joined(groups)
             len == Len(text)
             h == CHOOSE read : Reads(read, Unwritten, text, len, COLON)
             s == Read(Unwritten, text, len, COLON)
  <1>1. n \in Nat /\ n >= 1 /\ \A k \in 1 .. n : groups[k] \in Seq(Digits) /\ Len(groups[k]) \in Nat
    <2>1. n \in Nat /\ n >= 1 /\ \A k \in 1 .. n : groups[k] \in Seq(Digits)
      OBVIOUS
    <2> QED BY <2>1, GroupFacts
  <1>2. PICK at \in [1 .. n -> Nat] :
           /\ at[1] = 0
           /\ at[n] + Len(groups[n]) = len
           /\ \A k \in 1 .. n : Lies(text, groups, k, at[k])
           /\ \A k \in 1 .. n - 1 : at[k + 1] = at[k] + Len(groups[k]) + 1 /\ text[at[k + 1]] = COLON
    BY GroupsLie
  <1>3. text \in Seq(Chars) /\ len \in Nat
    <2>1. text \in Seq(Chars)
      BY GroupsLie
    <2> HIDE DEF text
    <2> QED BY <2>1
  <1>4. Unwritten \in Bytes
    BY DEF Unwritten, Bytes
  <1> HIDE DEF text, len, n
  <1>5. Reads(h, Unwritten, text, len, COLON) /\ \A i \in 0 .. len : h[i] \in Reading
    BY <1>3, <1>4, ReadsTyped
  <1>6. s = h[len]
    BY DEF Read
  <1> HIDE DEF h, s
  <1>7. h[0] = Begin(Unwritten) /\ \A i \in 1 .. len : h[i] = Char_read(h[i - 1], text[i], COLON)
    BY <1>3, <1>5 DEF Reads
  <1>8. ASSUME NEW k \in 1 .. n, Before(groups, k, h[at[k]])
        PROVE  After(groups, k, h[at[k] + Len(groups[k])])
    <2> DEFINE p == at[k]
               g == groups[k]
    <2>1. p \in Nat /\ p + Len(g) <= len /\ (\A j \in 1 .. Len(g) : text[p + j] = g[j]) /\ Len(g) \in Nat /\ g \in Seq(Digits)
      BY <1>1, <1>2 DEF Lies, len
    <2> HIDE DEF p, g
    <2>2. ASSUME NEW j \in 1 .. Len(g) PROVE h[p + j] = Char_read(h[p + (j - 1)], g[j], COLON)
      <3>1. p + j \in 1 .. len
        BY <1>3, <2>1
      <3>2. h[p + j] = Char_read(h[p + (j - 1)], text[p + j], COLON)
        <4>1. (p + j) - 1 = p + (j - 1)
          BY <2>1
        <4>2. h[p + j] = Char_read(h[(p + j) - 1], text[p + j], COLON)
          BY <1>7, <3>1, Zenon
        <4> QED BY <4>1, <4>2, Zenon
      <3>3. text[p + j] = g[j]
        BY <2>1
      <3> QED BY <3>2, <3>3, Zenon
    <2>3. h[p] \in Reading /\ (h[p].value = 0 \/ h[p].ret # 0 \/ h[p].i = 6)
      BY <1>8 DEF Before, p
    <2>4. In_group(h[p], g, Len(g), h[p + Len(g)])
      BY <2>1, <2>2, <2>3, GroupRead
    <2> QED BY <1>8, <2>4, AfterGroup DEF p, g, n
  <1> DEFINE A == {k \in 1 .. n : After(groups, k, h[at[k] + Len(groups[k])])}
  <1>9. 1 \in A
    <2>1. Begin(Unwritten) \in Reading
      BY <1>4 DEF Begin, Reading, Octet
    <2>2. Begin(Unwritten).mac = Stored(groups, 0)
      <3>1. 0 \in 0 .. 5
        OBVIOUS
      <3> QED BY <3>1, StoredNext DEF Begin
    <2>3. Begin(Unwritten).value = 0 /\ Begin(Unwritten).i = 0 /\ Begin(Unwritten).ret = 0
      BY DEF Begin
    <2>4. Before(groups, 1, Begin(Unwritten))
      <3>1. 1 - 1 = 0 /\ 1 <= 6 /\ 1 .. 0 = {}
        OBVIOUS
      <3> QED BY <2>1, <2>2, <2>3, <3>1 DEF Before
    <2>5. 1 \in 1 .. n
      BY <1>1
    <2> QED BY <1>2, <1>7, <1>8, <2>4, <2>5
  <1>10. ASSUME NEW k \in 1 .. n - 1, k \in A PROVE k + 1 \in A
    <2> DEFINE e == at[k] + Len(groups[k])
    <2>1. k \in 1 .. n /\ k + 1 \in 1 .. n /\ k \in 1 .. Len(groups) - 1
      BY <1>1 DEF n
    <2>2. at[k + 1] = e + 1 /\ text[e + 1] = COLON
      BY <1>2
    <2>3. e \in Nat /\ e + 1 \in 1 .. len /\ (e + 1) - 1 = e /\ e \in 0 .. len
      <3>1. at[k + 1] \in Nat /\ at[k] \in Nat /\ Len(groups[k]) \in Nat /\ Len(groups[k + 1]) \in Nat
        BY <1>1, <1>2, <2>1
      <3>2. at[k + 1] + Len(groups[k + 1]) <= len
        BY <1>2, <2>1 DEF Lies, len
      <3>3. e \in Nat
        BY <3>1
      <3>4. \A x, y, z, l \in Nat : y = x + 1 /\ y + z <= l =>
               x + 1 \in 1 .. l /\ (x + 1) - 1 = x /\ x \in 0 .. l
        OBVIOUS
      <3> HIDE DEF e
      <3> QED BY <1>3, <2>2, <3>1, <3>2, <3>3, <3>4, Zenon
    <2>4. After(groups, k, h[e])
      BY <1>10
    <2> HIDE DEF e, A
    <2>5. h[e + 1] = Char_read(h[e], COLON, COLON)
      BY <1>7, <2>2, <2>3
    <2>6. Before(groups, k + 1, h[at[k + 1]])
      BY <1>5, <2>1, <2>2, <2>3, <2>4, <2>5, ColonRead
    <2> QED BY <1>8, <2>1, <2>6 DEF A
  <1> HIDE DEF A
  <1>11. After(groups, n, h[len])
    <2>1. 1 .. n \subseteq A
      BY <1>1, <1>9, <1>10, IntervalInduction
    <2>2. n \in A
      BY <1>1, <2>1
    <2> QED BY <1>2, <2>2 DEF A
  <1>12. ASSUME len > 0 PROVE text[len] = COLON <=> groups[n] = <<>>
    <2>1. n \in 1 .. n
      BY <1>1
    <2>2. CASE groups[n] = <<>>
      <3>1. Len(groups[n]) = 0
        BY <2>2
      <3>2. at[n] = len
        BY <1>2, <1>3, <2>1, <3>1
      <3>3. n # 1
        BY <1>2, <1>12, <3>2
      <3>4. n - 1 \in 1 .. n - 1 /\ (n - 1) + 1 = n
        BY <1>1, <3>3
      <3>5. text[at[n]] = COLON
        BY <1>2, <3>4
      <3> QED BY <2>2, <3>2, <3>5
    <2>3. CASE groups[n] # <<>>
      <3> DEFINE g == groups[n]
      <3>1. g \in Seq(Digits) /\ g # <<>>
        BY <1>1, <2>1, <2>3
      <3> HIDE DEF g
      <3>2. Len(g) \in 1 .. Len(g)
        BY <3>1
      <3>3. text[at[n] + Len(g)] = g[Len(g)]
        BY <1>2, <2>1, <3>2 DEF Lies, g
      <3>4. g[Len(g)] # COLON
        BY <3>1, <3>2, GroupFacts
      <3> QED BY <1>2, <2>3, <3>3, <3>4 DEF g
    <2> QED BY <2>2, <2>3
  <1>13. s \in Reading
    <2>1. len \in 0 .. len
      BY <1>3
    <2> QED BY <1>5, <1>6, <2>1
  <1> QED BY <1>3, <1>6, <1>11, <1>12, <1>13 DEF s, text, len, n

(* What is stored and returned for the groups.                              *)
Counted(groups) ==
    LET n == Len(groups)
    IN  IF n <= 6 /\ groups[n] = <<>> THEN n - 1 ELSE IF n < 6 THEN n ELSE 6

Bad(groups) == {k \in 1 .. Counted(groups) : ~ IsByte(groups[k])}

Good(groups) == {k \in 1 .. Counted(groups) : \A j \in Bad(groups) : k < j}

As_written(groups, mac, ret) ==
    LET first == groups[Cardinality(Good(groups)) + 1]
    IN  IF ~ Length_fits(Len(Joined(groups)))
        THEN ret = -1 /\ \A k \in 1 .. 6 : mac[k] = GARBAGE
        ELSE /\ \A k \in 1 .. 6 : mac[k] = IF k \in Good(groups) THEN Value(groups[k]) ELSE GARBAGE
             /\ Bad(groups) = {} <=> ret = 0
             /\ ret = -2 => \E k \in DOMAIN first : Value(SubSeq(first, 1, k)) > 255

LEMMA CountedFacts ==
    ASSUME NEW groups \in Seq(Seq(Digits)), groups # <<>>
    PROVE  /\ Len(groups) \in Nat /\ Len(groups) >= 1
           /\ Counted(groups) \in 0 .. 6 /\ Counted(groups) <= Len(groups)
           /\ \A b \in 1 .. Len(groups) : b <= 6 /\ ~ IsByte(groups[b]) => b <= Counted(groups)
  <1> DEFINE n == Len(groups)
             g == groups[n]
  <1>1. n \in Nat /\ n >= 1
    OBVIOUS
  <1>2. Counted(groups) = IF n <= 6 /\ g = <<>> THEN n - 1 ELSE IF n < 6 THEN n ELSE 6
    BY DEF Counted
  <1>3. g = <<>> => IsByte(g)
    <2>1. <<>> \in Seq(Digits) /\ Len(<<>>) = 0
      OBVIOUS
    <2>2. Prefix_value(<<>>, Len(<<>>)) = Value(<<>>) /\ Prefix_value(<<>>, 0) = 0
      BY <2>1, PrefixValues
    <2>3. Value(<<>>) = 0
      BY <2>1, <2>2
    <2>4. DOMAIN <<>> = {} /\ 0 \in Octet
      BY DEF Octet
    <2> QED BY <2>3, <2>4 DEF IsByte
  <1>4. ASSUME NEW b \in 1 .. n, b <= 6, ~ IsByte(groups[b]) PROVE b <= Counted(groups)
    <2>1. CASE n <= 6 /\ g = <<>>
      <3>1. b # n
        BY <1>3, <1>4, <2>1
      <3> HIDE DEF n, g
      <3> QED BY <1>1, <1>2, <1>4, <2>1, <3>1
    <2>2. CASE ~ (n <= 6 /\ g = <<>>)
      <3> HIDE DEF n, g
      <3> QED BY <1>1, <1>2, <1>4, <2>2
    <2> QED BY <2>1, <2>2
  <1>5. Counted(groups) \in 0 .. 6 /\ Counted(groups) <= n
    <2> HIDE DEF n, g
    <2> QED BY <1>1, <1>2
  <1> QED BY <1>1, <1>4, <1>5 DEF n

LEMMA WrittenWrong ==
    ASSUME NEW groups \in Seq(Seq(Digits)), groups # <<>>,
           NEW b \in 1 .. Len(groups), NEW s, Wrong_at(groups, b, s),
           Length_fits(Len(Joined(groups)))
    PROVE  As_written(groups, s.mac, s.ret)
  <1>1. b <= 6 /\ ~ IsByte(groups[b]) /\ b \in Nat /\ b >= 1
    BY DEF Wrong_at
  <1>2. Counted(groups) \in Nat /\ b <= Counted(groups) /\ Counted(groups) <= 6
    BY <1>1, CountedFacts
  <1>3. b \in Bad(groups)
    BY <1>1, <1>2 DEF Bad
  <1>4. \A j \in 1 .. b - 1 : IsByte(groups[j])
    BY DEF Wrong_at
  <1>5. \A j \in Bad(groups) : j \in Nat /\ b <= j
    <2>1. ASSUME NEW j \in 1 .. Counted(groups), ~ IsByte(groups[j]) PROVE j \in Nat /\ b <= j
      <3>1. ~ (j \in 1 .. b - 1)
        BY <1>4, <2>1
      <3> QED BY <1>1, <1>2, <3>1
    <2> QED BY <2>1 DEF Bad
  <1>6. Good(groups) = 1 .. b - 1
    <2>1. \A k \in 1 .. Counted(groups) : (\A j \in Bad(groups) : k < j) <=> k < b
      BY <1>1, <1>2, <1>3, <1>5
    <2>2. Good(groups) = {k \in 1 .. Counted(groups) : k < b}
      BY <2>1 DEF Good
    <2> QED BY <1>1, <1>2, <2>2
  <1>7. Cardinality(Good(groups)) + 1 = b
    <2>1. 1 \in Int /\ b - 1 \in Int
      BY <1>1
    <2>2. Cardinality(1 .. b - 1) = IF 1 > b - 1 THEN 0 ELSE (b - 1) - 1 + 1
      BY <2>1, FS_Interval
    <2> QED BY <1>1, <1>6, <2>2
  <1>8. \A k \in 1 .. 6 : s.mac[k] = IF k \in Good(groups) THEN Value(groups[k]) ELSE GARBAGE
    <2>1. \A k \in 1 .. 6 : k <= b - 1 <=> k \in 1 .. b - 1
      BY <1>1
    <2>2. s.mac = Stored(groups, b - 1)
      BY DEF Wrong_at
    <2> QED BY <1>6, <2>1, <2>2 DEF Stored
  <1>9. Bad(groups) # {} /\ s.ret # 0
    BY <1>3 DEF Wrong_at
  <1>10. s.ret = -2 => \E k \in DOMAIN groups[b] : Value(SubSeq(groups[b], 1, k)) > 255
    <2>1. DOMAIN groups[b] = 1 .. Len(groups[b])
      <3>1. groups[b] \in Seq(Digits)
        OBVIOUS
      <3> QED BY <3>1
    <2> QED BY <2>1 DEF Wrong_at, Prefix_value
  <1> QED BY <1>7, <1>8, <1>9, <1>10 DEF As_written

LEMMA WrittenRight ==
    ASSUME NEW groups \in Seq(Seq(Digits)), groups # <<>>,
           \A j \in 1 .. Counted(groups) : IsByte(groups[j]),
           Length_fits(Len(Joined(groups)))
    PROVE  As_written(groups, Stored(groups, Counted(groups)), 0)
  <1>1. Counted(groups) \in Nat
    BY CountedFacts
  <1>2. Bad(groups) = {}
    BY DEF Bad
  <1>3. Good(groups) = 1 .. Counted(groups)
    BY <1>2 DEF Good
  <1>4. \A k \in 1 .. 6 : Stored(groups, Counted(groups))[k]
                            = IF k \in Good(groups) THEN Value(groups[k]) ELSE GARBAGE
    <2>1. \A k \in 1 .. 6 : k <= Counted(groups) <=> k \in 1 .. Counted(groups)
      BY <1>1
    <2> QED BY <1>3, <2>1 DEF Stored
  <1> QED BY <1>2, <1>4 DEF As_written

LEMMA GroupsAsWritten ==
    ASSUME NEW groups \in Seq(Seq(Digits)), groups # <<>>
    PROVE  LET text == Joined(groups)
               hex  == mac_from_hex(Unwritten, text, Len(text), COLON)
           IN  As_written(groups, hex.mac, hex.ret)
  <1> DEFINE text == Joined(groups)
             len == Len(text)
             hex == mac_from_hex(Unwritten, text, len, COLON)
             s == Read(Unwritten, text, len, COLON)
             n == Len(groups)
  <1>1. hex = IF ~ Length_fits(len) THEN [Begin(Unwritten) EXCEPT !.ret = -1]
              ELSE IF s.ret = 0 /\ s.i < 6 /\ text[len] # COLON THEN Byte_stored(s)
              ELSE s
    BY MacUnfolds
  <1>2. /\ len \in Nat /\ s \in Reading /\ After(groups, n, s)
        /\ len > 0 => (text[len] = COLON <=> groups[n] = <<>>)
    BY GroupsRead
  <1>3. ASSUME ~ Length_fits(len) PROVE As_written(groups, hex.mac, hex.ret)
    <2>1. hex = [Begin(Unwritten) EXCEPT !.ret = -1]
      BY <1>1, <1>3
    <2>2. hex.mac = Unwritten /\ hex.ret = -1
      <3> HIDE DEF hex
      <3> QED BY <2>1 DEF Begin
    <2>3. \A k \in 1 .. 6 : Unwritten[k] = GARBAGE
      BY DEF Unwritten
    <2>4. ~ Length_fits(Len(Joined(groups)))
      BY <1>3
    <2>5. \A k \in 1 .. 6 : hex.mac[k] = GARBAGE
      <3> HIDE DEF hex
      <3> QED BY <2>2, <2>3
    <2> HIDE DEF hex
    <2> QED BY <2>2, <2>4, <2>5, Zenon DEF As_written
  <1>4. ASSUME Length_fits(len), NEW b \in 1 .. n, Wrong_at(groups, b, s)
        PROVE  As_written(groups, hex.mac, hex.ret)
    <2>1. s.ret # 0
      BY <1>4 DEF Wrong_at
    <2>2. hex = s
      BY <1>1, <1>4, <2>1
    <2>3. As_written(groups, s.mac, s.ret)
      BY <1>4, WrittenWrong
    <2> HIDE DEF hex, s
    <2> QED BY <2>2, <2>3
  <1>5. ASSUME Length_fits(len), All_bytes(groups, n, s)
        PROVE  As_written(groups, hex.mac, hex.ret)
    <2> DEFINE l == Counted(groups)
    <2>1. n \in Nat /\ n >= 1 /\ l \in 0 .. 6 /\ l <= n
      BY CountedFacts
    <2>2. l = IF n <= 6 /\ groups[n] = <<>> THEN n - 1 ELSE IF n < 6 THEN n ELSE 6
      BY DEF Counted
    <2>3. \A j \in 1 .. l : IsByte(groups[j])
      <3>1. \A j \in 1 .. n : j <= 6 => IsByte(groups[j])
        BY <1>5 DEF All_bytes
      <3>2. \A j \in 1 .. l : j \in 1 .. n /\ j <= 6
        <4> HIDE DEF l, n
        <4> QED BY <2>1
      <3> QED BY <3>1, <3>2
    <2>4. text[len] = COLON <=> groups[n] = <<>>
      <3>1. len > 0
        BY <1>2, <1>5 DEF Length_fits
      <3> QED BY <1>2, <3>1
    <2>5. /\ s.ret = 0
          /\ s.i = IF n <= 6 THEN n - 1 ELSE 6
          /\ s.mac = Stored(groups, IF n <= 6 THEN n - 1 ELSE 6)
          /\ n <= 6 => s.value = Value(groups[n])
      BY <1>5 DEF All_bytes
    <2>6. As_written(groups, Stored(groups, l), 0)
      BY <1>5, <2>3, WrittenRight
    <2>7. hex.mac = Stored(groups, l) /\ hex.ret = 0
      <3>1. CASE n <= 6 /\ groups[n] # <<>>
        <4>1. n - 1 \in 0 .. 5 /\ (n - 1) + 1 = n /\ l = n /\ n - 1 < 6
          <5> HIDE DEF n, l
          <5> QED BY <2>1, <2>2, <3>1
        <4>2. s.i = n - 1 /\ s.mac = Stored(groups, n - 1) /\ s.value = Value(groups[n])
          BY <2>5, <3>1
        <4>3. hex = Byte_stored(s)
          BY <1>1, <1>5, <2>4, <2>5, <3>1, <4>1, <4>2
        <4> HIDE DEF hex, s, n, l
        <4>4. Byte_stored(s) = [mac |-> [s.mac EXCEPT ![s.i + 1] = s.value], i |-> s.i + 1,
                                value |-> 0, ret |-> s.ret]
          BY <1>2, <4>1, <4>2, StoredType
        <4>5. [Stored(groups, n - 1) EXCEPT ![(n - 1) + 1] = Value(groups[(n - 1) + 1])]
                = Stored(groups, (n - 1) + 1)
          BY <4>1, StoredNext
        <4>6. [s.mac EXCEPT ![s.i + 1] = s.value] = Stored(groups, n)
          BY <4>1, <4>2, <4>5
        <4> QED BY <2>5, <4>1, <4>3, <4>4, <4>6
      <3>2. CASE n <= 6 /\ groups[n] = <<>>
        <4>1. l = n - 1 /\ s.mac = Stored(groups, n - 1)
          BY <2>2, <2>5, <3>2
        <4>2. hex = s
          BY <1>1, <1>5, <2>4, <3>2
        <4> HIDE DEF hex, s, n, l
        <4> QED BY <2>5, <4>1, <4>2
      <3>3. CASE ~ (n <= 6)
        <4>1. l = 6 /\ s.mac = Stored(groups, 6) /\ s.i = 6
          <5>1. ~ (n < 6)
            <6> HIDE DEF n
            <6> QED BY <2>1, <3>3
          <5> HIDE DEF n
          <5> QED BY <2>2, <2>5, <3>3, <5>1
        <4>2. ~ (s.i < 6)
          BY <4>1
        <4>3. hex = s
          BY <1>1, <1>5, <4>2
        <4> HIDE DEF hex, s, n, l
        <4> QED BY <2>5, <4>1, <4>3
      <3> QED BY <3>1, <3>2, <3>3
    <2> HIDE DEF hex, s, n, l
    <2> QED BY <2>6, <2>7 DEF l
  <1>6. CASE Length_fits(len)
    <2>1. All_bytes(groups, n, s) \/ \E b \in 1 .. n : Wrong_at(groups, b, s)
      BY <1>2 DEF After
    <2> QED BY <1>4, <1>5, <1>6, <2>1
  <1> QED BY <1>3, <1>6

-----------------------------------------------------------------------------
LEMMA StepWritten == ReadsGroups /\ [Next]_vars => ReadsGroups'
  <1>1. ASSUME ReadsGroups, typed' = typed PROVE ReadsGroups'
    <2>1. typed # NULL => As_written(typed.groups, typed.mac, typed.ret)
      BY <1>1, Zenon DEF ReadsGroups, As_written, Good, Bad, Counted
    <2>2. typed' # NULL => As_written(typed'.groups, typed'.mac, typed'.ret)
      BY <1>1, <2>1
    <2> QED BY <2>2, Zenon DEF ReadsGroups, As_written, Good, Bad, Counted
  <1>2. ASSUME NEW groups \in Texts, Parse(groups) PROVE ReadsGroups'
    <2> DEFINE text == Joined(groups)
               hex == mac_from_hex(Unwritten, text, Len(text), COLON)
    <2>1. groups \in Seq(Seq(Digits)) /\ groups # <<>>
      BY CallsAssumption DEF Digits
    <2>2. As_written(groups, hex.mac, hex.ret)
      BY <2>1, GroupsAsWritten
    <2>3. typed' = [groups |-> groups, mac |-> hex.mac, ret |-> hex.ret]
      BY <1>2 DEF Parse, Unwritten
    <2> HIDE DEF hex
    <2>4. typed'.groups = groups /\ typed'.mac = hex.mac /\ typed'.ret = hex.ret
      BY <2>3
    <2>5. As_written(typed'.groups, typed'.mac, typed'.ret)
      BY <2>2, <2>4
    <2> QED BY <2>5 DEF ReadsGroups, As_written, Good, Bad, Counted
  <1>3. [Next]_vars => typed' = typed \/ \E groups \in Texts : Parse(groups)
    BY DEF Next, Lookup, ListFails, ListTaken, Filter_undefined, NotFound, Found, mac_from_if,
           NoFile, FileRead, NoIndex, Index, NoRoom, Room, CopyFails, Copy, Cleanup, Change,
           Caller_kept, Mac_failed, Mac_read, vars
  <1> QED BY <1>1, <1>2, <1>3

(* However an address is written, as groups between colons, each of its     *)
(* bytes is stored where it belongs up to the first group that is none,     *)
(* nothing else of the caller's array is written, and the code that is      *)
(* returned says whether there was one and, if it is -2, that it is too big *)
(* (net.c:53-81).                                                           *)
THEOREM ReadsWhatIsWritten == Spec => []ReadsGroups
  <1>1. Init => ReadsGroups
    BY DEF Init, ReadsGroups
  <1> QED BY <1>1, StepWritten, PTL DEF Spec
=============================================================================
