--------------------------- MODULE LoopbackProofs ---------------------------
(* Proofs about module Loopback, for any configs and any edits of them,     *)
(* also those that are unreadable or name other drives.                     *)
EXTENDS Loopback, FiniteSetTheorems, TLAPS

-----------------------------------------------------------------------------
(* Configs                                                                 *)

\* A list has finitely many places and finitely many elements.
LEMMA ListIsFinite ==
  ASSUME NEW S, NEW s \in Seq(S)
  PROVE  IsFiniteSet(DOMAIN s) /\ IsFiniteSet(ToSet(s))
<1>1. PICK n \in Nat : DOMAIN s = 1 .. n
  <2>1. DOMAIN s = 1 .. Len(s) /\ Len(s) \in Nat
    OBVIOUS
  <2> QED
    BY <2>1
<1>2. n \in Int /\ 1 \in Int
  OBVIOUS
<1>3. IsFiniteSet(1 .. n)
  BY <1>2, FS_Interval
<1>4. IsFiniteSet(DOMAIN s)
  BY <1>1, <1>3
<1> DEFINE h == [i \in DOMAIN s |-> s[i]]
<1>5. h \in Surjection(DOMAIN s, ToSet(s))
  BY DEF Surjection, ToSet
<1> HIDE DEF h
<1>6. IsFiniteSet(ToSet(s))
  BY <1>4, <1>5, FS_Surjection
<1> QED
  BY <1>4, <1>6

\* What a config that can be read is made of.
LEMMA ConfigType ==
  ASSUME NEW c \in Configs \ {NotYAML}
  PROVE  /\ c # None /\ c.count \in Nat /\ SizeBy(c) \in Nat
         /\ c.size # None => c.size \in Nat
         /\ c.drives \in Seq(ConfigDrive)
         /\ DrivesOf(c) = c.drives
         /\ ToSet(c.drives) \subseteq ConfigDrive
         /\ \A e \in ToSet(c.drives) : \E i \in DOMAIN c.drives : e = c.drives[i]
         /\ \A i \in DOMAIN c.drives : c.drives[i] \in ToSet(c.drives)
<1>1. /\ c # None /\ c.count \in Nat /\ c.size \in Nat \cup {None}
      /\ c.drives \in Seq(ConfigDrive)
  BY LoopbackAssumption
<1>2. \A i \in DOMAIN c.drives : c.drives[i] \in ConfigDrive
  BY <1>1
<1> QED
  BY <1>1, <1>2 DEF ToSet, SizeBy, DefaultSize, DrivesOf

\* A config names a drive once.
LEMMA NamedOnce ==
  ASSUME NEW c \in Configs \ {NotYAML}, NEW e \in ToSet(c.drives), NEW o \in ToSet(c.drives),
         e.serial = o.serial
  PROVE  e = o
<1>1. PICK i \in DOMAIN c.drives : e = c.drives[i]
  BY ConfigType
<1>2. PICK j \in DOMAIN c.drives : o = c.drives[j]
  BY ConfigType
<1> QED
  BY <1>1, <1>2, LoopbackAssumption

\* The serial numbers that configs name.
LEMMA KnownType ==
  /\ \A c \in Configs : NamedBy(c) \subseteq KnownSerials
  /\ KnownSerials \subseteq File
  /\ NamedBy(None) = {} /\ NamedBy(NotYAML) = {}
<1>1. NamedBy(None) = {} /\ NamedBy(NotYAML) = {}
  BY DEF NamedBy, DrivesOf, ToSet
<1>2. ASSUME NEW c \in Configs
      PROVE  NamedBy(c) \subseteq File
  <2>1. CASE c = NotYAML
    BY <1>1, <2>1
  <2>2. CASE c # NotYAML
    BY <2>2, ConfigType DEF NamedBy, ConfigDrive
  <2> QED
    BY <2>1, <2>2
<1> QED
  BY <1>1, <1>2 DEF KnownSerials

\* The numbers of serial numbers, and of names of files.
LEMMA SerialType ==
  /\ File \subseteq Serial /\ None \notin Serial
  /\ \A s \in Serial : s = <<s[1], s[2]>> /\ s[1] \in 0..3
  /\ \A f \in File : /\ f[1] \in 0..2
                     /\ <<f[1] + 1, f[2]>> \in Serial
                     /\ IsNameIn(f, f) /\ IsNameIn(<<f[1] + 1, f[2]>>, f)
  /\ \A i \in Nat : <<1, i>> \in Serial /\ <<0, i>> \in File /\ IdOf(<<0, i>>) = <<1, i>>
BY LoopbackAssumption DEF Serial, File, IsNameIn, IdOf

\* A drive that the config adds under its serial number keeps to StableIdentity.
LEMMA NamedIdentity ==
  ASSUME NEW s \in KnownSerials, Alone(s)
  PROVE  IdOf(s) = s
BY KnownType, SerialType DEF Alone

-----------------------------------------------------------------------------
(* Sets of drives                                                          *)

\* FileOK and a drive that keeps to the invariant when n numbers were drawn.
FileOKAt(f, n) ==
  (f[2] \in Nat => f[2] < n) /\ (IdOf(f) = f => f \in NamedBy(conf) \cup dropped)

GoodDrive(d, n) ==
  /\ d \in Device /\ (d.serial[2] \in Nat => d.serial[2] < n)
  /\ d.file # None =>
       /\ FileOKAt(d.file, n)
       /\ Alone(d.file) /\ d.file \notin dropped => d.serial = IdOf(d.file)

Distinct(D) == \A d, e \in D : d.serial = e.serial => d = e

Good(D, n) == (\A d \in D : GoodDrive(d, n)) /\ Distinct(D)

LEMMA DevicesAreGood ==
  devices \subseteq Device /\ DevicesOK <=> Good(devices, ids)
BY DEF Good, GoodDrive, Distinct, DevicesOK, StableIdentity, FileOK, FileOKAt, Drawn

\* Drives that keep their serial number and, if they keep any, their file.
LEMMA Replaced ==
  ASSUME NEW D, NEW n, Good(D, n), NEW g,
         \A d \in D : g[d] \in Device /\ g[d].serial = d.serial /\ g[d].file \in {d.file, None}
  PROVE  Good({g[d] : d \in D}, n)
<1>1. \A d \in D : GoodDrive(g[d], n)
  BY DEF Good, GoodDrive
<1>2. Distinct({g[d] : d \in D})
  BY DEF Good, Distinct
<1> QED
  BY <1>1, <1>2 DEF Good

\* What is well-formed when n numbers were drawn is so when m were.
LEMMA Later ==
  ASSUME NEW D, NEW n \in Nat, NEW m \in Nat, n <= m, Good(D, n)
  PROVE  Good(D, m)
<1>1. ASSUME NEW d \in D
      PROVE  GoodDrive(d, m)
  <2>1. \A b \in Nat : b < n => b < m
    OBVIOUS
  <2> QED
    BY <2>1 DEF Good, GoodDrive, FileOKAt
<1> QED
  BY <1>1 DEF Good

\* Two such sets with different serial numbers make one.
LEMMA Joined ==
  ASSUME NEW D, NEW E, NEW n, Good(D, n), Good(E, n),
         \A d \in D, e \in E : d.serial # e.serial
  PROVE  Good(D \cup E, n)
BY DEF Good, Distinct

\* The default drives: with the next serial numbers, and files of their own.
LEMMA Defaults ==
  ASSUME NEW c, SizeBy(c) \in Nat, NEW first \in Nat, NEW n \in Nat
  PROVE  /\ Good(DefaultDevices(c, first, n), first + n)
         /\ \A d \in DefaultDevices(c, first, n) : d.serial[2] \in Nat /\ d.serial[2] >= first
<1> DEFINE dev(i) == [FillEmptyFieldsWithDefaults(<<1, i>>, <<0, i>>) EXCEPT !.size = SizeBy(c)]
           I == first .. first + n - 1
           T == DefaultDevices(c, first, n)
<1>1. \A i \in I : i \in Nat /\ i >= first /\ i < first + n
  OBVIOUS
<1>2. ASSUME NEW i \in I
      PROVE  /\ dev(i) \in Device /\ dev(i).serial = <<1, i>> /\ dev(i).file = <<0, i>>
  <2>1. <<1, i>> \in Serial /\ <<0, i>> \in File
    BY <1>1, SerialType
  <2> QED
    BY <2>1 DEF FillEmptyFieldsWithDefaults, Device, Health
<1>3. \A d \in T : \E i \in I : d = dev(i)
  BY DEF DefaultDevices
<1> HIDE DEF dev, I, T
<1>4. ASSUME NEW d \in T
      PROVE  /\ GoodDrive(d, first + n)
             /\ d.serial[2] \in Nat /\ d.serial[2] >= first
  <2>1. PICK i \in I : d = dev(i)
    BY <1>3
  <2>2. /\ d \in Device /\ d.serial = <<1, i>> /\ d.file = <<0, i>>
        /\ i \in Nat /\ i < first + n /\ i >= first
    BY <1>1, <1>2, <2>1
  <2>3. IdOf(<<0, i>>) = <<1, i>>
    BY <2>2, SerialType
  <2> QED
    BY <2>2, <2>3 DEF GoodDrive, FileOKAt
<1>5. Distinct(T)
  <2> SUFFICES ASSUME NEW d \in T, NEW e \in T, d.serial = e.serial
               PROVE  d = e
    BY DEF Distinct
  <2>1. PICK i \in I : d = dev(i)
    BY <1>3
  <2>2. PICK j \in I : e = dev(j)
    BY <1>3
  <2>3. <<1, i>> = <<1, j>>
    BY <1>2, <2>1, <2>2
  <2> QED
    BY <2>1, <2>2, <2>3
<1> QED
  BY <1>4, <1>5 DEF Good, T

\* Default drives next to those there are.
LEMMA Filled ==
  ASSUME NEW D, NEW m \in Nat, Good(D, m), NEW c, SizeBy(c) \in Nat, NEW n \in Nat
  PROVE  Good(D \cup DefaultDevices(c, m, n), m + n)
<1> DEFINE E == DefaultDevices(c, m, n)
<1>1. Good(E, m + n) /\ \A e \in E : e.serial[2] \in Nat /\ e.serial[2] >= m
  BY Defaults
<1>2. m + n \in Nat /\ m <= m + n
  OBVIOUS
<1> HIDE DEF E
<1>3. Good(D, m + n)
  BY <1>2, Later
<1>4. ASSUME NEW d \in D, NEW e \in E, d.serial = e.serial
      PROVE  FALSE
  <2>1. d.serial[2] \in Nat => d.serial[2] < m
    BY DEF Good, GoodDrive
  <2> QED
    BY <1>1, <1>4, <2>1
<1>5. Good(D \cup E, m + n)
  BY <1>1, <1>3, <1>4, Joined
<1> QED
  BY <1>5 DEF E

-----------------------------------------------------------------------------
(* Recovery                                                                *)

LEMMA FromConfigType ==
  ASSUME NEW e \in ConfigDrive, NEW f \in File \cup {None}
  PROVE  /\ FromConfig(e, f) \in Device /\ FromConfig(e, f).serial = e.serial
         /\ FromConfig(e, f).file = f
<1>1. e.serial \in Serial
  BY SerialType DEF ConfigDrive
<1> QED
  BY <1>1 DEF FromConfig, FillEmptyFieldsWithDefaults, Device, ConfigDrive, DefaultSize, Health

LEMMA RecoveredByDefaultType ==
  ASSUME NEW f \in File
  PROVE  /\ RecoveredByDefault(f) \in Device
         /\ RecoveredByDefault(f).serial = <<f[1] + 1, f[2]>> /\ RecoveredByDefault(f).file = f
<1>1. <<f[1] + 1, f[2]>> \in Serial
  BY SerialType
<1> QED
  BY <1>1 DEF RecoveredByDefault, FillEmptyFieldsWithDefaults, Device, DefaultSize, Health

\* A file that no serial number of the config contains was generated, or taken out of
\* the config.
LEMMA DefaultIdentity ==
  ASSUME LoopInv, NEW f \in DOMAIN files, f \notin dropped,
         \A s \in NamedBy(conf) : ~IsNameIn(s, f)
  PROVE  <<f[1] + 1, f[2]>> = IdOf(f)
<1>1. f \in File /\ FileOK(f)
  BY DEF LoopInv, TypeOK, FilesOK
<1>2. IsNameIn(f, f)
  BY <1>1, SerialType
<1>3. IdOf(f) # f
  BY <1>1, <1>2 DEF FileOK
<1> QED
  BY <1>3 DEF IdOf

LEMMA RecoveredIsGood ==
  ASSUME LoopInv, AttemptToRecoverDevices
  PROVE  /\ Good(devices', ids) /\ length' \in Nat
         /\ config' \in (Configs \ {NotYAML}) \cup {None}
         /\ NamedBy(config') \subseteq NamedBy(conf)
<1> USE DEF LoopInv
<1> DEFINE F == DOMAIN files
           c == IF F = {} THEN None ELSE ReadConfig(None)
           found == {fe \in F \X ToSet(DrivesOf(c)) : IsNameIn(fe[2].serial, fe[1])}
           entries == {fe[2] : fe \in found}
           others == F \ {fe[1] : fe \in found}
<1>1. /\ config' = c
      /\ \E last \in [entries -> F] :
           /\ \A e \in entries : <<last[e], e>> \in found
           /\ devices' = {FromConfig(e, last[e]) : e \in entries}
                           \cup {RecoveredByDefault(f) : f \in others}
      /\ length' = Cardinality(found) + Cardinality(others)
  BY DEF AttemptToRecoverDevices
<1>2. /\ c \in (Configs \ {NotYAML}) \cup {None}
      /\ F # {} => NamedBy(c) = NamedBy(conf)
      /\ NamedBy(c) \subseteq NamedBy(conf)
  BY KnownType, LoopbackAssumption DEF ReadConfig, TypeOK
<1> DEFINE K == ToSet(DrivesOf(c))
<1>3. /\ K \subseteq ConfigDrive /\ IsFiniteSet(K)
      /\ \A e \in K, o \in K : e.serial = o.serial => e = o
      /\ NamedBy(c) = {e.serial : e \in K}
  <2>1. CASE c = None
    <3>1. K = {}
      BY <2>1 DEF DrivesOf, ToSet
    <3> QED
      BY <3>1, FS_EmptySet DEF NamedBy
  <2>2. CASE c # None
    <3> HIDE DEF c
    <3>1. c \in Configs \ {NotYAML} /\ DrivesOf(c) = c.drives /\ c.drives \in Seq(ConfigDrive)
          /\ ToSet(c.drives) \subseteq ConfigDrive
      BY <1>2, <2>2, ConfigType
    <3>2. IsFiniteSet(ToSet(c.drives))
      BY <3>1, ListIsFinite
    <3> QED
      BY <3>1, <3>2, NamedOnce DEF NamedBy
  <2> QED
    BY <2>1, <2>2
<1>4. F \subseteq File /\ IsFiniteSet(F) /\ \A f \in F : FileOKAt(f, ids)
  BY DEF TypeOK, FilesOK, FileOK, FileOKAt, Drawn
<1>5. PICK last \in [entries -> F] :
        /\ \A e \in entries : <<last[e], e>> \in found
        /\ devices' = {FromConfig(e, last[e]) : e \in entries}
                        \cup {RecoveredByDefault(f) : f \in others}
  BY <1>1
<1> DEFINE A == {FromConfig(e, last[e]) : e \in entries}
           B == {RecoveredByDefault(f) : f \in others}
<1> HIDE DEF F, c
<1>6. /\ \A e \in entries : e \in K /\ last[e] \in F /\ IsNameIn(e.serial, last[e])
      /\ \A f \in others : f \in F /\ \A e \in K : ~IsNameIn(e.serial, f)
  <2>1. \A fe \in found : fe[1] \in F /\ fe[2] \in K /\ IsNameIn(fe[2].serial, fe[1])
    OBVIOUS
  <2>2. \A f \in F, e \in K : IsNameIn(e.serial, f) => <<f, e>> \in found
    OBVIOUS
  <2> HIDE DEF found, K
  <2>3. \A e \in entries : /\ <<last[e], e>>[1] \in F /\ <<last[e], e>>[2] \in K
                            /\ IsNameIn(<<last[e], e>>[2].serial, <<last[e], e>>[1])
    BY <1>5, <2>1
  <2>4. \A e \in entries : e \in K /\ last[e] \in F /\ IsNameIn(e.serial, last[e])
    BY <2>3
  <2>5. ASSUME NEW f \in others, NEW e \in K, IsNameIn(e.serial, f)
        PROVE  FALSE
    <3>1. f \in F /\ <<f, e>> \in found /\ <<f, e>>[1] = f
      BY <2>2, <2>5
    <3> QED
      BY <3>1
  <2> QED
    BY <2>4, <2>5
<1>7. length' \in Nat
  <2>1. IsFiniteSet(F \X K)
    BY <1>3, <1>4, FS_Product
  <2>2. IsFiniteSet(found) /\ IsFiniteSet(others)
    BY <1>4, <2>1, FS_Subset
  <2> HIDE DEF found, others
  <2> QED
    BY <1>1, <2>2, FS_CardinalityType
<1> HIDE DEF K, found, entries, others
<1>8. Good(A, ids)
  <2>1. ASSUME NEW e \in entries
        PROVE  GoodDrive(FromConfig(e, last[e]), ids) /\ FromConfig(e, last[e]).serial = e.serial
    <3>1. /\ e \in ConfigDrive /\ last[e] \in File /\ IsNameIn(e.serial, last[e])
          /\ e.serial \in NamedBy(conf) /\ e.serial \in KnownSerials
          /\ FileOKAt(last[e], ids)
      BY <1>2, <1>3, <1>4, <1>6, KnownType DEF TypeOK
    <3>2. /\ FromConfig(e, last[e]) \in Device /\ FromConfig(e, last[e]).serial = e.serial
          /\ FromConfig(e, last[e]).file = last[e]
      BY <3>1, FromConfigType
    <3>3. e.serial[2] \in Nat => e.serial[2] < ids
      BY <3>1 DEF ConfigOK, Drawn
    <3>4. Alone(last[e]) => e.serial = IdOf(last[e])
      BY <3>1 DEF Alone
    <3> QED
      BY <3>1, <3>2, <3>3, <3>4 DEF GoodDrive
  <2>2. Distinct(A)
    BY <1>3, <1>6, <2>1 DEF Distinct
  <2> QED
    BY <2>1, <2>2 DEF Good
<1>9. Good(B, ids)
  <2>1. ASSUME NEW f \in others
        PROVE  /\ GoodDrive(RecoveredByDefault(f), ids)
               /\ RecoveredByDefault(f).serial = <<f[1] + 1, f[2]>>
    <3>1. f \in File /\ f \in DOMAIN files /\ FileOKAt(f, ids)
      BY <1>4, <1>6 DEF F
    <3>2. /\ RecoveredByDefault(f) \in Device /\ RecoveredByDefault(f).file = f
          /\ RecoveredByDefault(f).serial = <<f[1] + 1, f[2]>>
      BY <3>1, RecoveredByDefaultType
    <3>3. \A s \in NamedBy(conf) : ~IsNameIn(s, f)
      BY <1>2, <1>3, <1>6
    <3>4. f \notin dropped => <<f[1] + 1, f[2]>> = IdOf(f)
      BY <3>1, <3>3, DefaultIdentity
    <3> QED
      BY <3>1, <3>2, <3>4 DEF GoodDrive, FileOKAt
  <2>2. Distinct(B)
    <3> SUFFICES ASSUME NEW f \in others, NEW g \in others,
                        RecoveredByDefault(f).serial = RecoveredByDefault(g).serial
                 PROVE  f = g
      BY DEF Distinct
    <3>1. f \in Serial /\ g \in Serial
      BY <1>4, <1>6, SerialType
    <3>2. <<f[1] + 1, f[2]>> = <<g[1] + 1, g[2]>>
      BY <2>1
    <3>3. f[1] + 1 = g[1] + 1 /\ f[2] = g[2]
      BY <3>2
    <3>4. f[1] = g[1] /\ f = <<f[1], f[2]>> /\ g = <<g[1], g[2]>>
      BY <3>1, <3>3, SerialType
    <3> QED
      BY <3>3, <3>4
  <2> QED
    BY <2>1, <2>2 DEF Good
<1>10. \A a \in A, b \in B : a.serial # b.serial
  <2> SUFFICES ASSUME NEW e \in entries, NEW f \in others
               PROVE  FromConfig(e, last[e]).serial # RecoveredByDefault(f).serial
    OBVIOUS
  <2>1. e \in ConfigDrive /\ last[e] \in File /\ f \in File /\ ~IsNameIn(e.serial, f)
    BY <1>3, <1>4, <1>6
  <2>2. IsNameIn(<<f[1] + 1, f[2]>>, f)
    BY <2>1, SerialType
  <2> QED
    BY <2>1, <2>2, FromConfigType, RecoveredByDefaultType
<1>11. Good(devices', ids)
  <2> HIDE DEF A, B
  <2>1. devices' = A \cup B
    BY <1>5 DEF A, B
  <2> QED
    BY <1>8, <1>9, <1>10, <2>1, Joined
<1> QED
  BY <1>1, <1>2, <1>7, <1>11 DEF c

\* Good refers to conf and dropped, which these steps leave alone.
LEMMA GoodNext ==
  ASSUME NEW D, NEW n, Good(D, n), UNCHANGED <<conf, dropped>>
  PROVE  Good(D, n)'
BY DEF Good, GoodDrive, FileOKAt, Distinct

LEMMA AttemptToRecoverDevicesInv ==
  ASSUME LoopInv, AttemptToRecoverDevices
  PROVE  LoopInv'
<1> USE DEF LoopInv
<1>1. /\ phase' = "update" /\ cleaned' = FALSE
      /\ UNCHANGED <<conf, event, files, loops, ids, dropped, changes>>
  BY DEF AttemptToRecoverDevices
<1>2. /\ Good(devices', ids) /\ length' \in Nat
      /\ config' \in (Configs \ {NotYAML}) \cup {None}
      /\ NamedBy(config') \subseteq NamedBy(conf)
  BY RecoveredIsGood
<1>3. devices' \subseteq Device /\ DevicesOK'
  BY <1>1, <1>2 DEF DevicesOK, StableIdentity, Good, GoodDrive, Distinct, FileOK, FileOKAt, Drawn
<1>4. TypeOK'
  BY <1>1, <1>2, <1>3 DEF TypeOK
<1>5. FilesOK' /\ PhaseOK'
  BY <1>1 DEF FilesOK, FileOK, Drawn, PhaseOK
<1>6. ConfigOK'
  BY <1>1, <1>2 DEF ConfigOK, Drawn
<1> QED
  BY <1>3, <1>4, <1>5, <1>6

-----------------------------------------------------------------------------
(* The config                                                              *)

LEMMA LackingType ==
  ASSUME NEW w \in Nat, NEW n \in Nat
  PROVE  Lacking(w, n) \in Nat /\ n + Lacking(w, n) >= w
BY DEF Lacking

\* The drives of the config that are added are new, and not too many to be counted.
LEMMA AppendedType ==
  ASSUME NEW c \in Configs \ {NotYAML}, NEW D, NEW n
  PROVE  /\ Appended(c, D, n) \subseteq DOMAIN c.drives
         /\ \A i \in Appended(c, D, n) : \A d \in D : d.serial # c.drives[i].serial
         /\ Cardinality(Appended(c, D, n)) \in Nat
<1>1. /\ Appended(c, D, n) \subseteq DOMAIN c.drives
      /\ \A i \in Appended(c, D, n) : \A d \in D : d.serial # c.drives[i].serial
  BY DEF Appended
<1>2. IsFiniteSet(DOMAIN c.drives)
  BY ConfigType, ListIsFinite
<1>3. Cardinality(Appended(c, D, n)) \in Nat
  BY <1>1, <1>2, FS_Subset, FS_CardinalityType
<1> QED
  BY <1>1, <1>3

\* The config changes what the drives it names are like.
LEMMA OverriddenType ==
  ASSUME NEW c \in Configs \ {NotYAML}, NEW d \in Device
  PROVE  /\ Overridden(c, d) \in Device /\ Overridden(c, d).serial = d.serial
         /\ Overridden(c, d).file \in {d.file, None}
<1>1. CASE EntriesFor(c, d) = {}
  BY <1>1 DEF Overridden
<1>2. CASE EntriesFor(c, d) # {}
  <2>1. PICK e \in EntriesFor(c, d) : Overridden(c, d) = Override(d, e)
    BY <1>2 DEF Overridden
  <2>2. e \in ConfigDrive /\ e.serial = d.serial
    BY <2>1, ConfigType DEF EntriesFor
  <2>3. CASE Equals(d, e)
    BY <2>1, <2>3 DEF Override
  <2>4. CASE ~Equals(d, e)
    <3> DEFINE f == IF d.bound THEN d.file ELSE None
               new == FromConfig(e, f)
    <3>1. f \in File \cup {None} /\ f \in {d.file, None}
      BY DEF Device
    <3> HIDE DEF f
    <3>2. new \in Device /\ new.serial = d.serial /\ new.file = f
      BY <2>2, <3>1, FromConfigType
    <3> HIDE DEF new
    <3>3. Overridden(c, d) = [new EXCEPT !.size = IF d.bound THEN d.size ELSE @]
      BY <2>1, <2>4 DEF Override, new, f
    <3> QED
      BY <3>1, <3>2, <3>3 DEF Device
  <2> QED
    BY <2>3, <2>4
<1> QED
  BY <1>1, <1>2

\* It adds some of them, which it has named by now.
LEMMA OverrideStep ==
  ASSUME NEW c \in Configs \ {NotYAML}, NEW D, NEW n \in Nat, Good(D, n), NEW k,
         NamedBy(c) \subseteq NamedBy(conf) \cup dropped,
         \A s \in NamedBy(c) : s[2] \in Nat => s[2] < n
  PROVE  Good(OverrideDevicesFromNodeConfig(c, D, Appended(c, D, k)), n)
<1> DEFINE g == [d \in D |-> Overridden(c, d)]
           I == Appended(c, D, k)
           A == {g[d] : d \in D}
           E == {NewDevice(c, c.drives[i]) : i \in I}
<1>1. \A d \in D : g[d] \in Device /\ g[d].serial = d.serial /\ g[d].file \in {d.file, None}
  BY OverriddenType DEF Good, GoodDrive
<1>2. I \subseteq DOMAIN c.drives /\ \A i \in I, d \in D : d.serial # c.drives[i].serial
  BY AppendedType
<1>3. ASSUME NEW i \in I
      PROVE  LET e == NewDevice(c, c.drives[i])
             IN  e.serial = c.drives[i].serial /\ GoodDrive(e, n)
  <2> DEFINE o == c.drives[i]
             e == NewDevice(c, o)
             fc == FromConfig(o, o.serial)
  <2>1. /\ o \in ConfigDrive /\ o.serial \in File /\ SizeBy(c) \in Nat
        /\ o.serial \in NamedBy(c) /\ o.serial \in KnownSerials
    BY <1>2, ConfigType, KnownType DEF NamedBy, ConfigDrive
  <2> HIDE DEF o
  <2>2. fc \in Device /\ fc.serial = o.serial /\ fc.file = o.serial
    BY <2>1, FromConfigType
  <2> HIDE DEF fc
  <2>3. e = [fc EXCEPT !.size = IF o.full THEN DefaultSize ELSE SizeBy(c)]
    BY DEF NewDevice, fc
  <2>4. e \in Device /\ e.serial = o.serial /\ e.file = o.serial
    BY <2>1, <2>2, <2>3 DEF Device, DefaultSize
  <2>5. FileOKAt(o.serial, n) /\ (Alone(o.serial) => o.serial = IdOf(o.serial))
    BY <2>1, NamedIdentity DEF FileOKAt
  <2> QED
    BY <2>1, <2>4, <2>5 DEF GoodDrive, FileOKAt, o
<1>4. OverrideDevicesFromNodeConfig(c, D, I) = A \cup E
  BY DEF OverrideDevicesFromNodeConfig
<1> HIDE DEF g, I
<1>5. Good(A, n)
  BY <1>1, Replaced
<1>6. Good(E, n)
  <2>1. Distinct(E)
    <3> SUFFICES ASSUME NEW i \in I, NEW j \in I,
                        NewDevice(c, c.drives[i]).serial = NewDevice(c, c.drives[j]).serial
                 PROVE  NewDevice(c, c.drives[i]) = NewDevice(c, c.drives[j])
      BY DEF Distinct
    <3>1. c.drives[i].serial = c.drives[j].serial
      BY <1>3
    <3>2. i = j
      BY <1>2, <3>1, LoopbackAssumption
    <3> QED
      BY <3>2
  <2> QED
    BY <1>3, <2>1 DEF Good
<1>7. \A a \in A, e \in E : a.serial # e.serial
  BY <1>1, <1>2, <1>3
<1> HIDE DEF A, E
<1>8. Good(A \cup E, n)
  BY <1>5, <1>6, <1>7, Joined
<1> QED
  BY <1>4, <1>8 DEF I

\* Drives that get another size stay the drives they were.
LEMMA ResizeStep ==
  ASSUME NEW c, SizeBy(c) \in Nat, NEW D, NEW n, Good(D, n), NEW R \in SUBSET D
  PROVE  Good(WithSize(c, D, R), n)
<1> DEFINE g == [d \in D |-> IF d \in R THEN [d EXCEPT !.size = SizeBy(c), !.bound = FALSE]
                             ELSE d]
<1>1. \A d \in D : g[d] \in Device /\ g[d].serial = d.serial /\ g[d].file \in {d.file, None}
  <2> SUFFICES ASSUME NEW d \in D
               PROVE  g[d] \in Device /\ g[d].serial = d.serial /\ g[d].file \in {d.file, None}
    OBVIOUS
  <2>1. d \in Device
    BY DEF Good, GoodDrive
  <2>2. CASE d \in R
    <3>1. g[d] = [d EXCEPT !.size = SizeBy(c), !.bound = FALSE]
      BY <2>2
    <3> QED
      BY <2>1, <3>1 DEF Device
  <2>3. CASE d \notin R
    BY <2>1, <2>3
  <2> QED
    BY <2>2, <2>3
<1>2. WithSize(c, D, R) = {g[d] : d \in D}
  BY DEF WithSize
<1> HIDE DEF g
<1> QED
  BY <1>1, <1>2, Replaced

\* What an update must not delete: files of drives that the config named all the time.
ToKeep(f) == IdOf(f) = f /\ Alone(f) /\ f \notin dropped

\* What updateDevicesFromConfig comes to: the drives are again well-formed, there are
\* as many as the config asks for, and no file of a drive it names is deleted.
LEMMA UpdateStep ==
  ASSUME LoopInv
  PROVE  /\ Update.ids \in Nat /\ ids <= Update.ids /\ Good(Update.devices, Update.ids)
         /\ Update.length \in Nat
         /\ Update.config \in (Configs \ {NotYAML}) \cup {None}
         /\ NamedBy(Update.config) \subseteq NamedBy(conf) \cup dropped
         /\ Update.config # None => Update.length >= Update.config.count
         /\ \A f \in Update.gone : f \in DOMAIN files => ~ToKeep(f)
<1> DEFINE c      == ReadConfig(config)
           devs   == IF conf = NotYAML THEN devices ELSE {[d EXCEPT !.own = FALSE] : d \in devices}
           first  == IF c = None THEN Lacking(DefaultNumberOfDevices, length)
                     ELSE IF devices = {} THEN Lacking(c.count, Len(c.drives)) ELSE 0
           filled == devs \cup DefaultDevices(c, ids, first)
           added  == IF c = None THEN {} ELSE Appended(c, filled, length + first)
           over   == IF c = None THEN filled ELSE OverrideDevicesFromNodeConfig(c, filled, added)
           resize == IF c = None THEN {} ELSE Resized(c, over)
           so_far == length + first + Cardinality(added)
           rest   == IF c = None THEN 0 ELSE Lacking(c.count, so_far)
           sized  == WithSize(c, over, resize)
<1>1. /\ Update.config = c /\ Update.ids = ids + first + rest
      /\ Update.length = so_far + rest
      /\ Update.gone = {d.file : d \in resize}
      /\ Update.devices = sized \cup DefaultDevices(c, ids + first, rest)
  BY DEF Update
<1>2. /\ ids \in Nat /\ length \in Nat /\ Good(devices, ids)
      /\ c \in (Configs \ {NotYAML}) \cup {None}
      /\ conf # NotYAML => c = conf
      /\ NamedBy(c) \subseteq NamedBy(conf) \cup dropped
      /\ \A s \in NamedBy(c) : s[2] \in Nat => s[2] < ids
  <2>1. /\ ids \in Nat /\ length \in Nat /\ Good(devices, ids)
        /\ conf \in Configs /\ config \in (Configs \ {NotYAML}) \cup {None}
    BY DevicesAreGood DEF LoopInv, TypeOK
  <2>2. (conf # NotYAML /\ c = conf) \/ (conf = NotYAML /\ c = config)
    BY DEF ReadConfig
  <2>3. conf # NotYAML => c = conf
    BY DEF ReadConfig
  <2> HIDE DEF c
  <2>4. /\ NamedBy(c) \subseteq NamedBy(conf) \cup dropped
        /\ \A s \in NamedBy(c) : s[2] \in Nat => s[2] < ids
    BY <2>2 DEF LoopInv, ConfigOK, Drawn
  <2> QED
    BY <2>1, <2>2, <2>3, <2>4
<1> HIDE DEF c
<1>3. /\ SizeBy(c) \in Nat /\ first \in Nat
      /\ c # None => c \in Configs \ {NotYAML} /\ c.count \in Nat
  <2>1. CASE c = None
    BY <1>2, <2>1, LackingType DEF SizeBy, DefaultSize, DefaultNumberOfDevices
  <2>2. CASE c # None
    <3>1. c.count \in Nat /\ SizeBy(c) \in Nat /\ Len(c.drives) \in Nat
      BY <1>2, <2>2, ConfigType
    <3> QED
      BY <1>2, <2>2, <3>1, LackingType
  <2> QED
    BY <2>1, <2>2
<1> HIDE DEF first
<1>4. Good(devs, ids)
  <2>1. CASE conf = NotYAML
    BY <1>2, <2>1
  <2>2. CASE conf # NotYAML
    <3> DEFINE g == [d \in devices |-> [d EXCEPT !.own = FALSE]]
    <3>1. \A d \in devices : g[d] \in Device /\ g[d].serial = d.serial
                             /\ g[d].file \in {d.file, None}
      BY <1>2 DEF Good, GoodDrive, Device
    <3>2. devs = {g[d] : d \in devices}
      BY <2>2
    <3> HIDE DEF g, devs
    <3> QED
      BY <1>2, <3>1, <3>2, Replaced
  <2> QED
    BY <2>1, <2>2
<1> HIDE DEF devs
<1>5. Good(filled, ids + first) /\ ids + first \in Nat
  BY <1>2, <1>3, <1>4, Filled
<1> HIDE DEF filled
<1>6. Cardinality(added) \in Nat /\ Good(over, ids + first)
  <2>1. CASE c = None
    BY <1>5, <2>1, FS_EmptySet
  <2>2. CASE c # None
    <3>1. \A s \in NamedBy(c) : s[2] \in Nat => s[2] < ids + first
      <4>1. \A b \in Nat : b < ids => b < ids + first
        BY <1>2, <1>3
      <4> QED
        BY <1>2, <4>1
    <3>2. Good(OverrideDevicesFromNodeConfig(c, filled, Appended(c, filled, length + first)),
               ids + first)
      BY <1>2, <1>3, <1>5, <2>2, <3>1, OverrideStep
    <3> QED
      BY <1>3, <2>2, <3>2, AppendedType
  <2> QED
    BY <2>1, <2>2
<1> HIDE DEF added, over
<1>7. so_far \in Nat
  BY <1>2, <1>3, <1>6
<1> HIDE DEF so_far
<1>8. rest \in Nat /\ (c # None => so_far + rest >= c.count)
  BY <1>3, <1>7, LackingType
<1>9. \A f \in {d.file : d \in resize} : f \in DOMAIN files => ~ToKeep(f)
  <2> SUFFICES ASSUME NEW d \in resize, d.file \in DOMAIN files, ToKeep(d.file)
               PROVE  FALSE
    OBVIOUS
  <2>1. c # None /\ d \in over /\ d.serial \notin NamedBy(c)
    BY DEF Resized
  <2>2. d.file # None
    BY SerialType DEF LoopInv, TypeOK
  <2>3. d.serial = d.file
    BY <1>6, <2>1, <2>2 DEF Good, GoodDrive, ToKeep
  <2>4. d.file \in NamedBy(conf)
    BY DEF LoopInv, FilesOK, FileOK, ToKeep
  <2>5. conf # NotYAML
    BY <2>4, KnownType
  <2> QED
    BY <1>2, <2>1, <2>3, <2>4, <2>5
<1>10. Good(sized, ids + first)
  <2>1. resize \in SUBSET over
    BY DEF Resized
  <2> HIDE DEF resize
  <2> QED
    BY <1>3, <1>6, <2>1, ResizeStep
<1> HIDE DEF sized, resize, rest
<1>11. Good(sized \cup DefaultDevices(c, ids + first, rest), ids + first + rest)
  BY <1>3, <1>5, <1>8, <1>10, Filled
<1>12. ids + first + rest \in Nat /\ ids <= ids + first + rest /\ so_far + rest \in Nat
  BY <1>2, <1>3, <1>7, <1>8
<1> QED
  BY <1>1, <1>2, <1>8, <1>9, <1>11, <1>12

LEMMA DeleteType ==
  ASSUME LoopInv, NEW detached, NEW deleted, DeleteLoopbackDevices(detached, deleted)
  PROVE  /\ DOMAIN files' = DOMAIN files \ deleted
         /\ files' \in [DOMAIN files' -> Nat] /\ DOMAIN files' \subseteq File
         /\ loops' \subseteq DOMAIN files' /\ loops' \subseteq loops
         /\ IsFiniteSet(DOMAIN files')
<1>1. DOMAIN files' = DOMAIN files \ deleted /\ files' = [f \in DOMAIN files' |-> files[f]]
  BY DEF DeleteLoopbackDevices
<1>2. IsFiniteSet(DOMAIN files')
  BY <1>1, FS_Subset DEF LoopInv, FilesOK
<1> QED
  BY <1>1, <1>2 DEF DeleteLoopbackDevices, LoopInv, TypeOK

LEMMA UpdateFacts ==
  ASSUME LoopInv, UpdateDevicesFromConfig
  PROVE  /\ phase' = "files" /\ UNCHANGED <<conf, event, cleaned, dropped>>
         /\ changes' \in 0 .. MaxChanges
         /\ config' = Update.config /\ devices' = Update.devices
         /\ length' = Update.length /\ ids' = Update.ids
         /\ \E detached, deleted \in SUBSET Update.gone : DeleteLoopbackDevices(detached, deleted)
<1>1. changes' \in 0 .. MaxChanges
  BY LoopbackAssumption DEF UpdateDevicesFromConfig, Change, LoopInv, TypeOK
<1> QED
  BY <1>1, Zenon DEF UpdateDevicesFromConfig

LEMMA UpdateDevicesFromConfigInv ==
  ASSUME LoopInv, UpdateDevicesFromConfig
  PROVE  LoopInv'
<1> USE DEF LoopInv
<1>1. /\ phase' = "files" /\ UNCHANGED <<conf, event, cleaned, dropped>>
      /\ changes' \in 0 .. MaxChanges
      /\ config' = Update.config /\ devices' = Update.devices
      /\ length' = Update.length /\ ids' = Update.ids
  BY UpdateFacts
<1>2. PICK detached, deleted : DeleteLoopbackDevices(detached, deleted)
  BY UpdateFacts
<1>3. /\ ids' \in Nat /\ ids <= ids' /\ Good(devices', ids')
      /\ length' \in Nat
      /\ config' \in (Configs \ {NotYAML}) \cup {None}
      /\ NamedBy(config') \subseteq NamedBy(conf) \cup dropped
      /\ config' # None => length' >= config'.count
  BY <1>1, UpdateStep
<1>4. /\ DOMAIN files' = DOMAIN files \ deleted
      /\ files' \in [DOMAIN files' -> Nat] /\ DOMAIN files' \subseteq File
      /\ loops' \subseteq DOMAIN files' /\ IsFiniteSet(DOMAIN files')
  BY <1>2, DeleteType
<1>5. \A b \in Nat : b < ids => b < ids'
  BY <1>3 DEF TypeOK
<1>6. devices' \subseteq Device /\ DevicesOK'
  BY <1>1, <1>3 DEF DevicesOK, StableIdentity, Good, GoodDrive, Distinct, FileOK, FileOKAt, Drawn
<1>7. TypeOK'
  BY <1>1, <1>3, <1>4, <1>6 DEF TypeOK
<1>8. FilesOK'
  BY <1>1, <1>4, <1>5 DEF FilesOK, FileOK, Drawn
<1>9. ConfigOK'
  <2>1. \A s \in NamedBy(conf) \cup NamedBy(config) : s[2] \in Nat => s[2] < ids'
    BY <1>5 DEF ConfigOK, Drawn
  <2>2. NamedBy(config') \subseteq NamedBy(conf) \cup NamedBy(config)
    BY <1>1 DEF Update, ReadConfig
  <2> QED
    BY <1>1, <1>3, <2>1, <2>2 DEF ConfigOK, Drawn
<1>10. PhaseOK'
  BY <1>1, <1>3 DEF PhaseOK
<1> QED
  BY <1>6, <1>7, <1>8, <1>9, <1>10

-----------------------------------------------------------------------------
(* Files and loop devices                                                  *)

LEMMA CreateFileInv ==
  ASSUME LoopInv, NEW d \in devices, CreateFile(d)
  PROVE  LoopInv'
<1> USE DEF LoopInv
<1>1. /\ phase = "files" /\ d.file # None
      /\ files' = [f \in DOMAIN files \cup {d.file} |-> IF f = d.file THEN d.size ELSE files[f]]
      /\ UNCHANGED <<conf, event, config, phase, devices, length, loops, ids, cleaned,
                     dropped, changes>>
  BY DEF CreateFile
<1>2. d.file \in File /\ d.size \in Nat /\ FileOK(d.file)
  BY <1>1 DEF TypeOK, Device, DevicesOK
<1>3. TypeOK'
  BY <1>1, <1>2 DEF TypeOK
<1>4. FilesOK'
  <2>1. IsFiniteSet(DOMAIN files')
    BY <1>1, FS_AddElement DEF FilesOK
  <2> QED
    BY <1>1, <1>2, <2>1 DEF FilesOK, FileOK, Drawn
<1>5. DevicesOK'
  BY <1>1 DEF DevicesOK, StableIdentity, FileOK, Drawn
<1>6. ConfigOK' /\ PhaseOK'
  BY <1>1 DEF ConfigOK, Drawn, PhaseOK
<1> QED
  BY <1>3, <1>4, <1>5, <1>6

\* A phase that ends with nothing left to do.
LEMMA PhaseEndsInv ==
  ASSUME LoopInv, GetBackFileToLoopMap \/ InitDone \/ UpdateOnConfigChange
  PROVE  LoopInv'
<1> USE DEF LoopInv
<1>1. /\ UNCHANGED <<conf, config, devices, length, files, loops, ids, cleaned, dropped, changes>>
      /\ event' \in BOOLEAN
      /\ \/ phase = "files" /\ phase' = "loops"
         \/ phase = "loops" /\ phase' = "watch" /\ Unregistered = {}
         \/ phase = "watch" /\ phase' = "update"
  BY DEF GetBackFileToLoopMap, InitDone, UpdateOnConfigChange, TypeOK
<1>2. phase' = "watch" => \A d \in devices : d.bound /\ d.file \in loops /\ d.file # None
  <2>1. Unregistered = {} => \A d \in devices : d.bound /\ d.file \in loops
    BY DEF Unregistered, TypeOK, Device
  <2>2. None \notin loops
    BY SerialType DEF TypeOK
  <2> QED
    BY <1>1, <2>1, <2>2
<1>3. TypeOK'
  BY <1>1 DEF TypeOK
<1>4. FilesOK' /\ DevicesOK' /\ ConfigOK'
  BY <1>1 DEF FilesOK, DevicesOK, StableIdentity, ConfigOK, FileOK, Drawn
<1>5. PhaseOK'
  BY <1>1, <1>2 DEF PhaseOK
<1> QED
  BY <1>3, <1>4, <1>5

\* Drives that change in neither serial number nor file.
LEMMA SameDrives ==
  ASSUME LoopInv, NEW g, devices' = {g[d] : d \in devices},
         UNCHANGED <<conf, ids, dropped>>,
         \A d \in devices : g[d] \in Device /\ g[d].serial = d.serial /\ g[d].file = d.file
  PROVE  devices' \subseteq Device /\ DevicesOK'
<1>1. Good(devices, ids)
  BY DevicesAreGood DEF LoopInv, TypeOK
<1>2. Good(devices', ids)
  BY <1>1, Replaced
<1> QED
  BY <1>2 DEF DevicesOK, StableIdentity, Good, GoodDrive, Distinct, FileOK, FileOKAt, Drawn

LEMMA RegisterInv ==
  ASSUME LoopInv, NEW d \in devices, Register(d)
  PROVE  LoopInv'
<1> USE DEF LoopInv
<1> DEFINE new == [d EXCEPT !.bound = TRUE, !.removed = IF d.file \in loops THEN @ ELSE FALSE]
           g == [e \in devices |-> IF e = d THEN new ELSE e]
<1>1. /\ phase = "loops" /\ d.file \in loops \cup DOMAIN files
      /\ loops' = loops \cup {d.file}
      /\ devices' = (devices \ {d}) \cup {new}
      /\ UNCHANGED <<conf, event, config, phase, length, files, ids, cleaned, dropped, changes>>
  BY DEF Register
<1>2. new \in Device /\ new.serial = d.serial /\ new.file = d.file
  BY DEF TypeOK, Device
<1> HIDE DEF new
<1>3. \A e \in devices : g[e] \in Device /\ g[e].serial = e.serial /\ g[e].file = e.file
  BY <1>2 DEF TypeOK
<1>4. devices' = {g[e] : e \in devices}
  BY <1>1
<1> HIDE DEF g
<1>5. devices' \subseteq Device /\ DevicesOK'
  BY <1>1, <1>3, <1>4, SameDrives
<1>6. TypeOK'
  BY <1>1, <1>5 DEF TypeOK
<1>7. FilesOK' /\ ConfigOK' /\ PhaseOK'
  BY <1>1 DEF FilesOK, FileOK, ConfigOK, Drawn, PhaseOK
<1> QED
  BY <1>5, <1>6, <1>7

-----------------------------------------------------------------------------
(* The world                                                               *)

\* A new process knows nothing.
LEMMA RestartedInv ==
  ASSUME LoopInv, Restarted, UNCHANGED <<conf, ids, dropped>>,
         files' \in [DOMAIN files' -> Nat], DOMAIN files' \subseteq DOMAIN files,
         loops' \subseteq DOMAIN files', changes' \in 0 .. MaxChanges
  PROVE  LoopInv'
<1> USE DEF LoopInv
<1>1. /\ phase' = "recover" /\ devices' = {} /\ length' = 0 /\ config' = None
      /\ event' = FALSE /\ cleaned' = FALSE
  BY DEF Restarted
<1>2. TypeOK'
  BY <1>1 DEF TypeOK
<1>3. FilesOK'
  <2>1. IsFiniteSet(DOMAIN files')
    BY FS_Subset DEF FilesOK
  <2> QED
    BY <2>1 DEF FilesOK, FileOK, Drawn
<1>4. DevicesOK' /\ PhaseOK'
  BY <1>1 DEF DevicesOK, StableIdentity, PhaseOK
<1>5. ConfigOK'
  BY <1>1, KnownType DEF ConfigOK, Drawn
<1> QED
  BY <1>2, <1>3, <1>4, <1>5

LEMMA CrashesInv ==
  ASSUME LoopInv, Fatal \/ Crash \/ Reboot
  PROVE  LoopInv'
<1>1. Restarted /\ UNCHANGED <<conf, ids, dropped>>
  BY DEF Fatal, Crash, Reboot
<1>2. changes' \in 0 .. MaxChanges
  BY LoopbackAssumption DEF LoopInv, TypeOK, Fatal, Crash, Reboot, Change
<1>3. /\ files' \in [DOMAIN files' -> Nat] /\ DOMAIN files' \subseteq DOMAIN files
      /\ loops' \subseteq DOMAIN files'
  <2>1. CASE UNCHANGED files /\ loops' \in {loops, {}}
    BY <2>1 DEF LoopInv, TypeOK
  <2>2. ASSUME NEW detached, NEW deleted, DeleteLoopbackDevices(detached, deleted)
        PROVE  /\ files' \in [DOMAIN files' -> Nat] /\ DOMAIN files' \subseteq DOMAIN files
               /\ loops' \subseteq DOMAIN files'
    BY <2>2, DeleteType
  <2> QED
    BY <2>1, <2>2 DEF Fatal, Crash, Reboot
<1> QED
  BY <1>1, <1>2, <1>3, RestartedInv

LEMMA ChangeConfigInv ==
  ASSUME LoopInv, ChangeConfig
  PROVE  LoopInv'
<1> USE DEF LoopInv
<1>1. /\ conf' \in Configs /\ event' \in BOOLEAN
      /\ \A s \in NamedBy(conf') : s[2] \in Nat => ~(s[2] >= ids)
      /\ dropped' = dropped \cup (NamedBy(conf) \ NamedBy(conf'))
      /\ changes' = changes + 1 /\ changes < MaxChanges
      /\ UNCHANGED <<config, phase, devices, length, files, loops, ids, cleaned>>
  BY DEF ChangeConfig, Change, Foretells
<1>2. dropped \subseteq dropped' /\ dropped' \subseteq KnownSerials
      /\ NamedBy(conf) \cup dropped \subseteq NamedBy(conf') \cup dropped'
  BY <1>1, KnownType DEF TypeOK
<1>3. TypeOK'
  BY <1>1, <1>2, LoopbackAssumption DEF TypeOK
<1>4. \A f : FileOK(f) => FileOK(f)'
  BY <1>1, <1>2 DEF FileOK, Drawn
<1>5. FilesOK'
  BY <1>1, <1>4 DEF FilesOK
<1>6. DevicesOK'
  BY <1>1, <1>2, <1>4 DEF DevicesOK, StableIdentity, Drawn
<1>7. ConfigOK'
  <2>1. \A s \in NamedBy(conf') : s[2] \in Nat => s[2] < ids
    <3>1. ids \in Nat
      BY DEF TypeOK
    <3> QED
      BY <1>1, <3>1
  <2> QED
    BY <1>1, <1>2, <2>1 DEF ConfigOK, Drawn
<1>8. PhaseOK'
  BY <1>1 DEF PhaseOK
<1> QED
  BY <1>3, <1>5, <1>6, <1>7, <1>8

LEMMA CleanupLoopDevicesInv ==
  ASSUME LoopInv, CleanupLoopDevices
  PROVE  LoopInv'
<1> USE DEF LoopInv
<1> DEFINE g == [d \in devices |-> [d EXCEPT !.removed = TRUE]]
<1>1. /\ devices' = {g[d] : d \in devices} /\ cleaned' = TRUE
      /\ changes' = changes + 1 /\ changes < MaxChanges
      /\ UNCHANGED <<conf, event, config, phase, length, ids, dropped>>
  BY DEF CleanupLoopDevices, Change
<1>2. PICK detached, deleted : DeleteLoopbackDevices(detached, deleted)
  BY DEF CleanupLoopDevices
<1>3. \A d \in devices : /\ g[d] \in Device /\ g[d].serial = d.serial /\ g[d].file = d.file
                         /\ g[d].bound = d.bound
  BY DEF TypeOK, Device
<1> HIDE DEF g
<1>4. devices' \subseteq Device /\ DevicesOK'
  BY <1>1, <1>3, SameDrives
<1>5. /\ DOMAIN files' = DOMAIN files \ deleted
      /\ files' \in [DOMAIN files' -> Nat] /\ DOMAIN files' \subseteq File
      /\ loops' \subseteq DOMAIN files' /\ IsFiniteSet(DOMAIN files')
  BY <1>2, DeleteType
<1>6. TypeOK'
  <2>1. phase = "recover" => devices' = {}
    BY <1>1 DEF TypeOK
  <2> QED
    BY <1>1, <1>4, <1>5, <2>1, LoopbackAssumption DEF TypeOK
<1>7. FilesOK' /\ ConfigOK'
  BY <1>1, <1>5 DEF FilesOK, FileOK, Drawn, ConfigOK
<1>8. PhaseOK'
  BY <1>1, <1>3 DEF PhaseOK
<1> QED
  BY <1>4, <1>6, <1>7, <1>8

-----------------------------------------------------------------------------
(* The invariant and what follows from it                                  *)

LEMMA InitInv == Init => LoopInv
<1> SUFFICES ASSUME Init
             PROVE  LoopInv
  OBVIOUS
<1>1. TypeOK
  <2>1. files \in [DOMAIN files -> Nat] /\ DOMAIN files = {}
    BY DEF Init
  <2>2. changes \in 0 .. MaxChanges
    BY LoopbackAssumption DEF Init
  <2> QED
    BY <2>1, <2>2 DEF Init, TypeOK
<1>2. FilesOK /\ DevicesOK
  BY FS_EmptySet DEF Init, FilesOK, DevicesOK, StableIdentity
<1>3. ConfigOK
  <2>1. \A s \in NamedBy(conf) : s[2] \in Nat => FALSE
    BY DEF Init, Foretells
  <2> QED
    BY <2>1, KnownType DEF Init, ConfigOK, Drawn
<1>4. PhaseOK
  BY DEF Init, PhaseOK
<1> QED
  BY <1>1, <1>2, <1>3, <1>4 DEF LoopInv

LEMMA NextInv == LoopInv /\ [Next]_vars => LoopInv'
<1> SUFFICES ASSUME LoopInv, [Next]_vars
             PROVE  LoopInv'
  OBVIOUS
<1>1. CASE AttemptToRecoverDevices
  BY <1>1, AttemptToRecoverDevicesInv
<1>2. CASE UpdateDevicesFromConfig
  BY <1>2, UpdateDevicesFromConfigInv
<1>3. CASE \E d \in devices : CreateFile(d)
  BY <1>3, CreateFileInv
<1>4. CASE \E d \in devices : Register(d)
  BY <1>4, RegisterInv
<1>5. CASE GetBackFileToLoopMap \/ InitDone \/ UpdateOnConfigChange
  BY <1>5, PhaseEndsInv
<1>6. CASE Fatal \/ Crash \/ Reboot
  BY <1>6, CrashesInv
<1>7. CASE ChangeConfig
  BY <1>7, ChangeConfigInv
<1>8. CASE CleanupLoopDevices
  BY <1>8, CleanupLoopDevicesInv
<1>9. CASE UNCHANGED vars
  BY <1>9 DEF vars, LoopInv, TypeOK, FilesOK, DevicesOK, StableIdentity, ConfigOK, PhaseOK,
              FileOK, Drawn
<1> QED
  BY <1>1, <1>2, <1>3, <1>4, <1>5, <1>6, <1>7, <1>8, <1>9 DEF Next, Manager

LEMMA InvHolds == Spec => []LoopInv
<1>1. Init => LoopInv
  BY InitInv
<1>2. LoopInv /\ [Next]_vars => LoopInv'
  BY NextInv
<1> QED
  BY <1>1, <1>2, PTL DEF Spec

\* The drives, the config that was read and the progress of the manager stay
\* well-formed, for any configs and any edits of them.
THEOREM TypeCorrect == Spec => []TypeOK
<1>1. LoopInv => TypeOK
  BY DEF LoopInv
<1> QED
  BY <1>1, InvHolds, PTL

\* No two drives ever have the same serial number.  A file whose name is in no other
\* serial number of a config is the drive it was made for through every restart: a
\* generated one whatever is edited, one that the config added as long as no edit takes
\* it out or leaves the config unreadable (attemptToRecoverDevices).
THEOREM Stable == Spec => []StableIdentity
<1>1. LoopInv => StableIdentity
  BY DEF LoopInv, DevicesOK
<1> QED
  BY <1>1, InvHolds, PTL

\* When the manager waits for events, each drive it reports has a loop device with a
\* file, and its list is at least as long as the config it follows asks for, for any
\* configs and edits (Init, updateDevicesFromConfig).
THEOREM Backed == Spec => []ReportedIsBacked
<1>1. LoopInv => ReportedIsBacked
  <2> SUFFICES ASSUME LoopInv, phase = "watch", ~cleaned
               PROVE  /\ \A r \in GetDrivesList : r.path \in loops \cap DOMAIN files
                      /\ config # None => length >= config.count
    BY DEF ReportedIsBacked
  <2>1. \A d \in devices : d.bound /\ d.file \in loops \cap DOMAIN files
    BY DEF LoopInv, PhaseOK, TypeOK
  <2>2. \A r \in GetDrivesList : r.path \in loops \cap DOMAIN files
    BY <2>1 DEF GetDrivesList
  <2> QED
    BY <2>2 DEF LoopInv, PhaseOK
<1> QED
  BY <1>1, InvHolds, PTL

\* No step but the clean-up deletes the file of a drive that the config has named all
\* the time, whatever it says of sizes and numbers (the comparison of serial numbers
\* before deleteLoopbackDevice).
LEMMA FilesKept ==
  ASSUME LoopInv, Next, NEW f \in DOMAIN files, ToKeep(f), f \notin DOMAIN files'
  PROVE  cleaned'
<1>1. ASSUME NEW detached, NEW deleted \in SUBSET Update.gone,
             DeleteLoopbackDevices(detached, deleted)
      PROVE  FALSE
  <2>1. f \in deleted
    BY <1>1 DEF DeleteLoopbackDevices
  <2> QED
    BY <2>1, UpdateStep
<1>2. CASE UpdateDevicesFromConfig
  BY <1>1, <1>2, UpdateFacts
<1>3. CASE Crash
  BY <1>1, <1>3 DEF Crash
<1>4. CASE \E d \in devices : CreateFile(d)
  BY <1>4 DEF CreateFile
<1>5. CASE CleanupLoopDevices
  BY <1>5 DEF CleanupLoopDevices
<1>6. CASE UNCHANGED files
  BY <1>6
<1> QED
  BY <1>2, <1>3, <1>4, <1>5, <1>6
  DEF Next, Manager, AttemptToRecoverDevices, Register, GetBackFileToLoopMap, InitDone,
      UpdateOnConfigChange, Fatal, ChangeConfig, Reboot

\* The data of a drive that the config added is never deleted before the manager is told
\* to clean up, for any configs and edits, unless an edit has taken the drive out or left
\* the config unreadable, or the file's name is in another serial number.
THEOREM Kept == Spec => NamedDriveKept
<1>1. LoopInv /\ [Next]_vars =>
        [\A f \in DOMAIN files :
           /\ IdOf(f) = f /\ Alone(f) /\ f \notin dropped
           /\ f \notin DOMAIN files'
           => cleaned']_vars
  BY FilesKept DEF ToKeep
<1> QED
  BY <1>1, InvHolds, PTL DEF Spec, NamedDriveKept
=============================================================================
