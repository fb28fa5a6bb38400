-------------------------- MODULE WifiManagerProofs --------------------------
(***************************************************************************)
(* What an answer of 1 promises, for any credentials and any number of     *)
(* updates, losses of power and failing calls.                             *)
(***************************************************************************)
EXTENDS WifiManager, TLAPS

Boots == {"load", "start", "adopt", "halted"}
Applying == {"ssid", "pass", "commit", "mode", "config", "configured", "state",
             "disconnect", "connect"}
Stored == {"mode", "config", "configured", "state", "disconnect", "connect"}
Driven == {"configured", "state", "disconnect", "connect"}

\* An update is under way only after the boot, and nothing is promised then.
UpdateOpen ==
    /\ main \in Boots <=> service = "off"
    /\ service \in Applying => req \in Creds /\ told = None

\* What the strings are at each step of update_station() and after it.
StringsInOrder ==
    /\ service \in {"pass", "commit"} => staged["ssid"] = req
    /\ service = "commit" => staged["pass"] = req
    /\ service \in Stored => flash = Pair(req) /\ staged = NoPair /\ settings = Pair(req)
    /\ told # None => /\ flash = Pair(told) /\ staged = NoPair
                      /\ main # "load" => settings = Pair(told)

\* What the driver is configured for, and which network it is in.
DriverInOrder ==
    /\ main \in Boots => driver.phase = "idle"
    /\ service \in Driven => driver.config = Pair(req)
    /\ (told # None /\ main \notin {"load", "start", "halted"}) => driver.config = Pair(told)
    /\ (service = "connect" /\ faults = 0 /\ driver.phase # "idle") => driver.joined = Pair(req)
    /\ (told # None /\ faults = 0 /\ driver.phase # "idle") => driver.joined = Pair(told)

IInv == TypeOK /\ UpdateOpen /\ StringsInOrder /\ DriverInOrder

-----------------------------------------------------------------------------
(* The queue of events and the driver, under the calls that change them.   *)

LEMMA Posted ==
  ASSUME NEW q \in Seq(Kinds), NEW k \in Kinds
  PROVE  Append(q, k) \in Seq(Kinds)
OBVIOUS

LEMMA Handled ==
  ASSUME NEW q \in Seq(Kinds), q # <<>>
  PROVE  Tail(q) \in Seq(Kinds)
OBVIOUS

LEMMA NoEvents == <<>> \in Seq(Kinds)
OBVIOUS

LEMMA Accepted ==
  ASSUME driver \in Drivers, ConnectAccepted
  PROVE  /\ driver' \in Drivers
         /\ driver'.config = driver.config
         /\ driver.phase = "idle" => driver'.joined = driver.config
         /\ driver.phase # "idle" => driver' = driver
<1>1. CASE driver.phase = "idle"
  BY <1>1 DEF ConnectAccepted, Drivers
<1>2. CASE driver.phase # "idle"
  BY <1>2 DEF ConnectAccepted, Drivers
<1> QED
  BY <1>1, <1>2

-----------------------------------------------------------------------------

LEMMA TypeStep ==
  ASSUME TypeOK, UpdateOpen, [Next]_vars
  PROVE  TypeOK'
<1> USE NoneAssumption DEF TypeOK, Fault, NoFault, store, air
<1>1. CASE Reboot
  <2>1. driver' \in Drivers
    BY <1>1 DEF Reboot, Drivers, Strings, NoPair, Pair, Keys
  <2>2. mgr' \in Managers
    BY <1>1 DEF Reboot, Managers
  <2>3. events' \in Seq(Kinds)
    BY <1>1, NoEvents DEF Reboot, Kinds
  <2> QED
    BY <1>1, <2>1, <2>2, <2>3 DEF Reboot, Strings, NoPair, Pair, Keys
<1>2. CASE Associate
  <2>1. driver' \in Drivers
    BY <1>2 DEF Associate, Drivers
  <2>2. events' \in Seq(Kinds)
    BY <1>2, Posted DEF Associate, Kinds
  <2> QED
    BY <1>2, <2>1, <2>2 DEF Associate
<1>3. CASE Dissociate
  <2>1. driver' \in Drivers
    BY <1>3 DEF Dissociate, Drivers
  <2>2. events' \in Seq(Kinds)
    BY <1>3, Posted DEF Dissociate, Kinds
  <2> QED
    BY <1>3, <2>1, <2>2 DEF Dissociate
<1>4. CASE Lease
  <2>1. driver' \in Drivers
    BY <1>4 DEF Lease, Drivers
  <2>2. events' \in Seq(Kinds)
    BY <1>4, Posted DEF Lease, Kinds
  <2> QED
    BY <1>4, <2>1, <2>2 DEF Lease
<1>5. CASE OnStart
  <2>1. mgr' \in Managers
    BY <1>5 DEF OnStart, Handle, Managers
  <2>2. events' \in Seq(Kinds)
    BY <1>5, Handled DEF OnStart, Handle, Kinds
  <2> QED
    BY <1>5, <2>1, <2>2 DEF OnStart, Handle
<1>6. CASE OnConnected
  <2>1. driver' \in Drivers
    BY <1>6 DEF OnConnected, Handle, Drivers
  <2>2. events' \in Seq(Kinds)
    BY <1>6, Handled DEF OnConnected, Handle, Kinds
  <2> QED
    BY <1>6, <2>1, <2>2 DEF OnConnected, Handle
<1>7. CASE OnDisconnected
  <2>1. driver' \in Drivers
    BY <1>7 DEF OnDisconnected, Handle, Drivers
  <2>2. mgr' \in Managers
    BY <1>7 DEF OnDisconnected, Handle, Managers
  <2>3. events' \in Seq(Kinds)
    BY <1>7, Handled DEF OnDisconnected, Handle, Kinds
  <2> QED
    BY <1>7, <2>1, <2>2, <2>3 DEF OnDisconnected, Handle
<1>8. CASE OnGotIp
  <2>1. mgr' \in Managers
    BY <1>8 DEF OnGotIp, Handle, Managers
  <2>2. events' \in Seq(Kinds)
    BY <1>8, Handled DEF OnGotIp, Handle, Kinds
  <2> QED
    BY <1>8, <2>1, <2>2 DEF OnGotIp, Handle
<1>9. CASE BackoffOver
  <2>1. mgr' \in Managers
    BY <1>9 DEF BackoffOver, Managers
  <2> QED
    BY <1>9, <2>1 DEF BackoffOver
<1>10. CASE LoadStation
  BY <1>10 DEF LoadStation, Strings, NoPair, Pair, Keys
<1>11. CASE StartDriver
  <2>1. driver' \in Drivers
    BY <1>11 DEF StartDriver, Drivers
  <2>2. events' \in Seq(Kinds)
    BY <1>11, Posted DEF StartDriver, Kinds
  <2> QED
    BY <1>11, <2>1, <2>2 DEF StartDriver
<1>12. CASE AdoptStation
  <2>1. mgr' \in Managers
    BY <1>12 DEF AdoptStation, Managers
  <2> QED
    BY <1>12, <2>1 DEF AdoptStation
<1>13. CASE CheckReconnect
  BY <1>13 DEF CheckReconnect
<1>14. CASE ClearPending
  <2>1. mgr' \in Managers
    BY <1>14 DEF ClearPending, Managers
  <2> QED
    BY <1>14, <2>1 DEF ClearPending
<1>15. CASE SetConnecting
  <2>1. mgr' \in Managers
    BY <1>15 DEF SetConnecting, Managers
  <2> QED
    BY <1>15, <2>1 DEF SetConnecting
<1>16. CASE Reconnect
  <2>1. driver' \in Drivers
    BY <1>16, Accepted DEF Reconnect, ConnectRefused
  <2>2. mgr' \in Managers
    BY <1>16 DEF Reconnect, Managers, ConnectAccepted, ConnectRefused
  <2>3. CASE ConnectAccepted
    <3>1. events' = events /\ faults' = faults /\ tried' \in BOOLEAN
      BY <2>3 DEF ConnectAccepted
    <3> QED
      BY <1>16, <2>1, <2>2, <3>1 DEF Reconnect
  <2>4. CASE ConnectRefused
    <3>1. events' = events /\ faults' \in Nat
      BY <2>4 DEF ConnectRefused
    <3>2. tried' \in BOOLEAN
      BY <1>16, <2>4 DEF Reconnect, ConnectRefused, ConnectAccepted
    <3> QED
      BY <1>16, <2>1, <2>2, <3>1, <3>2 DEF Reconnect
  <2> QED
    BY <1>16, <2>3, <2>4 DEF Reconnect
<1>17. CASE Update
  BY <1>17 DEF Update
<1>18. CASE SetString("ssid", "pass")
  BY <1>18 DEF SetString, Strings, Keys, UpdateOpen, Applying
<1>19. CASE SetString("pass", "commit")
  BY <1>19 DEF SetString, Strings, Keys, UpdateOpen, Applying
<1>20. CASE Commit
  BY <1>20 DEF Commit, Committed, Strings, NoPair, Pair, Keys, UpdateOpen, Applying
<1>21. CASE SetMode
  <2>1. driver' \in Drivers
    BY <1>21 DEF SetMode, Drivers
  <2>2. events' \in Seq(Kinds)
    BY <1>21, Posted DEF SetMode, Kinds
  <2> QED
    BY <1>21, <2>1, <2>2 DEF SetMode
<1>22. CASE ConfigureStation
  <2>1. driver' \in Drivers
    BY <1>22 DEF ConfigureStation, Drivers
  <2> QED
    BY <1>22, <2>1 DEF ConfigureStation
<1>23. CASE SetConfigured
  <2>1. mgr' \in Managers
    BY <1>23 DEF SetConfigured, Managers
  <2> QED
    BY <1>23, <2>1 DEF SetConfigured
<1>24. CASE SetState
  <2>1. mgr' \in Managers
    BY <1>24 DEF SetState, Managers
  <2> QED
    BY <1>24, <2>1 DEF SetState
<1>25. CASE Disconnect
  <2>1. driver' \in Drivers
    BY <1>25 DEF Disconnect, Drivers
  <2>2. events' \in Seq(Kinds)
    BY <1>25, Posted DEF Disconnect, Kinds
  <2> QED
    BY <1>25, <2>1, <2>2 DEF Disconnect
<1>26. CASE ConnectAndAnswer
  <2>1. driver' \in Drivers
    BY <1>26, Accepted DEF ConnectAndAnswer, ConnectRefused
  <2>3. CASE ConnectAccepted
    <3>1. events' = events /\ faults' = faults /\ tried' \in BOOLEAN
      BY <2>3 DEF ConnectAccepted
    <3> QED
      BY <1>26, <2>1, <3>1 DEF ConnectAndAnswer, UpdateOpen, Applying
  <2>4. CASE ConnectRefused
    <3>1. events' = events /\ faults' \in Nat
      BY <2>4 DEF ConnectRefused
    <3>2. tried' \in BOOLEAN
      BY <1>26, <2>4 DEF ConnectAndAnswer, ConnectRefused, ConnectAccepted
    <3> QED
      BY <1>26, <2>1, <3>1, <3>2 DEF ConnectAndAnswer
  <2> QED
    BY <1>26, <2>3, <2>4 DEF ConnectAndAnswer
<1>27. CASE UNCHANGED vars
  BY <1>27 DEF vars
<1> QED
  BY <1>1, <1>2, <1>3, <1>4, <1>5, <1>6, <1>7, <1>8, <1>9, <1>10, <1>11, <1>12, <1>13, <1>14, <1>15, <1>16, <1>17, <1>18, <1>19, <1>20, <1>21, <1>22, <1>23, <1>24, <1>25, <1>26, <1>27 DEF Next

LEMMA UpdateStep ==
  ASSUME IInv, [Next]_vars
  PROVE  UpdateOpen'
<1> USE NoneAssumption DEF IInv, TypeOK, UpdateOpen, Fault, NoFault, store, air, Keys, Pair, NoPair, Boots, Applying
<1>1. UpdateOpen'
  <2>1. CASE Reboot
    BY <2>1 DEF Reboot
  <2>2. CASE Associate
    BY <2>2 DEF Associate
  <2>3. CASE Dissociate
    BY <2>3 DEF Dissociate
  <2>4. CASE Lease
    BY <2>4 DEF Lease
  <2>5. CASE OnStart
    BY <2>5 DEF OnStart, Handle
  <2>6. CASE OnConnected
    BY <2>6 DEF OnConnected, Handle
  <2>7. CASE OnDisconnected
    BY <2>7 DEF OnDisconnected, Handle
  <2>8. CASE OnGotIp
    BY <2>8 DEF OnGotIp, Handle
  <2>9. CASE BackoffOver
    BY <2>9 DEF BackoffOver
  <2>10. CASE LoadStation
    BY <2>10 DEF LoadStation
  <2>11. CASE StartDriver
    BY <2>11 DEF StartDriver
  <2>12. CASE AdoptStation
    BY <2>12 DEF AdoptStation
  <2>13. CASE CheckReconnect
    BY <2>13 DEF CheckReconnect
  <2>14. CASE ClearPending
    BY <2>14 DEF ClearPending
  <2>15. CASE SetConnecting
    BY <2>15 DEF SetConnecting
  <2>16. CASE Reconnect
    BY <2>16 DEF Reconnect, ConnectAccepted, ConnectRefused
  <2>17. CASE Update
    BY <2>17 DEF Update
  <2>18. CASE SetString("ssid", "pass")
    BY <2>18 DEF SetString
  <2>19. CASE SetString("pass", "commit")
    BY <2>19 DEF SetString
  <2>20. CASE Commit
    BY <2>20 DEF Commit, Committed
  <2>21. CASE SetMode
    BY <2>21 DEF SetMode
  <2>22. CASE ConfigureStation
    BY <2>22 DEF ConfigureStation
  <2>23. CASE SetConfigured
    BY <2>23 DEF SetConfigured
  <2>24. CASE SetState
    BY <2>24 DEF SetState
  <2>25. CASE Disconnect
    BY <2>25 DEF Disconnect
  <2>26. CASE ConnectAndAnswer
    BY <2>26 DEF ConnectAndAnswer, ConnectAccepted, ConnectRefused
  <2>27. CASE UNCHANGED vars
    BY <2>27 DEF vars, store, air
  <2> QED
    BY <2>1, <2>2, <2>3, <2>4, <2>5, <2>6, <2>7, <2>8, <2>9, <2>10, <2>11, <2>12, <2>13, <2>14, <2>15, <2>16, <2>17, <2>18, <2>19, <2>20, <2>21, <2>22, <2>23, <2>24, <2>25, <2>26, <2>27 DEF Next
<1> QED
  BY <1>1


LEMMA StringsStep ==
  ASSUME IInv, [Next]_vars
  PROVE  StringsInOrder'
<1> USE NoneAssumption DEF IInv, TypeOK, UpdateOpen, Fault, NoFault, store, air, Keys, Pair, NoPair, StringsInOrder, Boots, Applying, Stored
<1>1. StringsInOrder'
  <2>1. CASE Reboot
    BY <2>1 DEF Reboot
  <2>2. CASE Associate
    BY <2>2 DEF Associate
  <2>3. CASE Dissociate
    BY <2>3 DEF Dissociate
  <2>4. CASE Lease
    BY <2>4 DEF Lease
  <2>5. CASE OnStart
    BY <2>5 DEF OnStart, Handle
  <2>6. CASE OnConnected
    BY <2>6 DEF OnConnected, Handle
  <2>7. CASE OnDisconnected
    BY <2>7 DEF OnDisconnected, Handle
  <2>8. CASE OnGotIp
    BY <2>8 DEF OnGotIp, Handle
  <2>9. CASE BackoffOver
    BY <2>9 DEF BackoffOver
  <2>10. CASE LoadStation
    BY <2>10 DEF LoadStation
  <2>11. CASE StartDriver
    BY <2>11 DEF StartDriver, Drivers, Strings
  <2>12. CASE AdoptStation
    BY <2>12 DEF AdoptStation
  <2>13. CASE CheckReconnect
    BY <2>13 DEF CheckReconnect
  <2>14. CASE ClearPending
    BY <2>14 DEF ClearPending
  <2>15. CASE SetConnecting
    BY <2>15 DEF SetConnecting
  <2>16. CASE Reconnect
    BY <2>16 DEF Reconnect, ConnectAccepted, ConnectRefused
  <2>17. CASE Update
    BY <2>17 DEF Update
  <2>18. CASE SetString("ssid", "pass")
    BY <2>18 DEF SetString, Strings
  <2>19. CASE SetString("pass", "commit")
    BY <2>19 DEF SetString, Strings
  <2>20. CASE Commit
    BY <2>20 DEF Commit, Committed
  <2>21. CASE SetMode
    BY <2>21 DEF SetMode
  <2>22. CASE ConfigureStation
    BY <2>22 DEF ConfigureStation, Drivers, Strings
  <2>23. CASE SetConfigured
    BY <2>23 DEF SetConfigured
  <2>24. CASE SetState
    BY <2>24 DEF SetState
  <2>25. CASE Disconnect
    BY <2>25 DEF Disconnect
  <2>26. CASE ConnectAndAnswer
    BY <2>26 DEF ConnectAndAnswer, ConnectAccepted, ConnectRefused
  <2>27. CASE UNCHANGED vars
    BY <2>27 DEF vars, store, air
  <2> QED
    BY <2>1, <2>2, <2>3, <2>4, <2>5, <2>6, <2>7, <2>8, <2>9, <2>10, <2>11, <2>12, <2>13, <2>14, <2>15, <2>16, <2>17, <2>18, <2>19, <2>20, <2>21, <2>22, <2>23, <2>24, <2>25, <2>26, <2>27 DEF Next
<1> QED
  BY <1>1


LEMMA DriverStep ==
  ASSUME IInv, [Next]_vars
  PROVE  DriverInOrder'
<1> USE NoneAssumption DEF IInv, TypeOK, UpdateOpen, Fault, NoFault, store, air, Keys, Pair, NoPair, StringsInOrder, DriverInOrder, Boots, Applying, Stored, Driven
<1>1. DriverInOrder'
  <2>1. CASE Reboot
    BY <2>1 DEF Reboot
  <2>2. CASE Associate
    BY <2>2 DEF Associate
  <2>3. CASE Dissociate
    BY <2>3 DEF Dissociate
  <2>4. CASE Lease
    BY <2>4 DEF Lease
  <2>5. CASE OnStart
    BY <2>5 DEF OnStart, Handle
  <2>6. CASE OnConnected
    BY <2>6 DEF OnConnected, Handle
  <2>7. CASE OnDisconnected
    BY <2>7 DEF OnDisconnected, Handle
  <2>8. CASE OnGotIp
    BY <2>8 DEF OnGotIp, Handle
  <2>9. CASE BackoffOver
    BY <2>9 DEF BackoffOver
  <2>10. CASE LoadStation
    BY <2>10 DEF LoadStation
  <2>11. CASE StartDriver
    BY <2>11 DEF StartDriver, Drivers, Strings
  <2>12. CASE AdoptStation
    BY <2>12 DEF AdoptStation
  <2>13. CASE CheckReconnect
    BY <2>13 DEF CheckReconnect
  <2>14. CASE ClearPending
    BY <2>14 DEF ClearPending
  <2>15. CASE SetConnecting
    BY <2>15 DEF SetConnecting
  <2>16. CASE Reconnect
    <3>1. CASE ConnectAccepted
      BY <2>16, <3>1, Accepted DEF Reconnect, ConnectAccepted, Drivers, Strings
    <3>2. CASE ConnectRefused
      BY <2>16, <3>2 DEF Reconnect, ConnectRefused
    <3> QED
      BY <2>16, <3>1, <3>2 DEF Reconnect
  <2>17. CASE Update
    BY <2>17 DEF Update
  <2>18. CASE SetString("ssid", "pass")
    BY <2>18 DEF SetString, Strings
  <2>19. CASE SetString("pass", "commit")
    BY <2>19 DEF SetString, Strings
  <2>20. CASE Commit
    BY <2>20 DEF Commit, Committed
  <2>21. CASE SetMode
    BY <2>21 DEF SetMode
  <2>22. CASE ConfigureStation
    BY <2>22 DEF ConfigureStation, Drivers, Strings
  <2>23. CASE SetConfigured
    BY <2>23 DEF SetConfigured
  <2>24. CASE SetState
    BY <2>24 DEF SetState
  <2>25. CASE Disconnect
    BY <2>25 DEF Disconnect, Drivers, Strings
  <2>26. CASE ConnectAndAnswer
    <3>1. CASE ConnectAccepted
      BY <2>26, <3>1, Accepted DEF ConnectAndAnswer, ConnectAccepted, Drivers, Strings
    <3>2. CASE ConnectRefused
      BY <2>26, <3>2 DEF ConnectAndAnswer, ConnectRefused
    <3> QED
      BY <2>26, <3>1, <3>2 DEF ConnectAndAnswer
  <2>27. CASE UNCHANGED vars
    BY <2>27 DEF vars, store, air
  <2> QED
    BY <2>1, <2>2, <2>3, <2>4, <2>5, <2>6, <2>7, <2>8, <2>9, <2>10, <2>11, <2>12, <2>13, <2>14, <2>15, <2>16, <2>17, <2>18, <2>19, <2>20, <2>21, <2>22, <2>23, <2>24, <2>25, <2>26, <2>27 DEF Next
<1> QED
  BY <1>1

THEOREM Invariance == Spec => []IInv
<1>1. Init => IInv
  <2> SUFFICES ASSUME Init PROVE IInv
    OBVIOUS
  <2>1. mgr \in Managers /\ driver \in Drivers /\ events \in Seq(Kinds)
    BY NoEvents DEF Init, PowerOn, Managers, Drivers, Strings, Keys, Pair, NoPair
  <2>2. flash \in Strings /\ staged \in Strings /\ settings \in Strings
    BY DEF Init, PowerOn, Strings, Keys, Pair, NoPair
  <2>3. TypeOK
    BY <2>1, <2>2 DEF Init, PowerOn, TypeOK
  <2>4. UpdateOpen /\ StringsInOrder /\ DriverInOrder
    BY DEF Init, PowerOn, UpdateOpen, StringsInOrder, DriverInOrder, Boots, Applying, Stored, Driven
  <2> QED
    BY <2>3, <2>4 DEF IInv
<1>2. IInv /\ [Next]_vars => IInv'
  BY TypeStep, UpdateStep, StringsStep, DriverStep DEF IInv
<1> QED
  BY <1>1, <1>2, PTL DEF Spec

\* The fields, strings, events and the state of the driver have their types.
THEOREM TypeCorrect == Spec => []TypeOK
<1>1. IInv => TypeOK
  BY DEF IInv
<1> QED
  BY <1>1, Invariance, PTL

\* Whenever the power fails, what was answered with 1 is what boots.
THEOREM AppliedBoots == Spec => []AppliedPairBoots
<1>1. IInv => AppliedPairBoots
  BY DEF IInv, StringsInOrder, AppliedPairBoots, Pair, NoPair, Keys
<1> QED
  BY <1>1, Invariance, PTL

\* The station joins what was answered with 1 and nothing else, while the
\* driver does what it is told.
THEOREM AppliedJoins == Spec => []AppliedIsJoined
<1>1. IInv => AppliedIsJoined
  BY DEF IInv, DriverInOrder, AppliedIsJoined
<1> QED
  BY <1>1, Invariance, PTL
=============================================================================
