---------------------------- MODULE ConfigParser ----------------------------
(***************************************************************************)
(* Loading and hot-reloading settings (include/config/ConfigParser.hpp).   *)
(* A load puts the lines of the file into kv_store_ one after the other,   *)
(* then apply_kv converts what is in the store, setting by setting, until  *)
(* a conversion throws.  The store outlives the load.                      *)
(*                                                                         *)
(* The text of a setting is the number it spells, or Malformed when the    *)
(* conversion to a number throws.  Lines that the parser skips, and keys   *)
(* that apply_kv does not look up, have no effect and are left out.        *)
(***************************************************************************)
EXTENDS Integers

CONSTANTS
    Mentioned,   \* bound: keys that files mention
    Numbers,     \* bound: the numbers they give
    Malformed,   \* a text that is no number
    Absent,      \* no text
    Default,     \* stands for the default of each setting
    PortModulus, \* 2^16
    SizeModulus, \* 2^64
    MaxPool      \* 128

Settings == {"port", "thread_pool_size", "rate_limit_capacity", "rate_limit_refill_rate",
             "log_level", "shared_secret", "log_file"}

(* The place of each setting in apply_kv.                                  *)
Place == [port |-> 1, thread_pool_size |-> 2, rate_limit_capacity |-> 3,
          rate_limit_refill_rate |-> 4, log_level |-> 5, shared_secret |-> 6, log_file |-> 7]

Text == Numbers \union {Malformed}

ASSUME ConfigParserAssumption ==
    /\ Mentioned \subseteq Settings
    /\ Numbers \subseteq Int /\ Malformed \notin Int
    /\ Absent \notin Int /\ Absent # Malformed
    /\ PortModulus \in Nat \ {0} /\ SizeModulus \in Nat \ {0} /\ MaxPool \in Nat

VARIABLES
    outcome,  \* "loading" inside load_from_file, then how the last load ended
    filepath, \* filepath_ is set
    kv_store, \* kv_store_
    config,   \* config_
    before,   \* history: config_ when the last load began
    given     \* history: the last text of each setting in the file of that load

configuration == <<outcome, filepath, kv_store, config, before, given>>

NoText == [k \in Settings |-> Absent]

ConfigInit ==
    /\ outcome = "none" /\ filepath = FALSE
    /\ kv_store = NoText
    /\ config = [k \in Settings |-> Default]
    /\ before = config /\ given = NoText

Begin ==
    /\ outcome # "loading"
    /\ filepath' = TRUE
    /\ before' = config /\ given' = NoText

(* load_from_file finds its file.                                          *)
Open ==
    /\ Begin
    /\ outcome' = "loading"
    /\ UNCHANGED <<kv_store, config>>

(* It does not: false, and the settings stay as they are.                  *)
OpenFails ==
    /\ Begin
    /\ outcome' = "failed"
    /\ UNCHANGED <<kv_store, config>>

(* reload is a load of the last path, or nothing.                          *)
reload == filepath /\ (Open \/ OpenFails)

(* Faulty variant: emplace, which keeps a text that is there already.      *)
ReadLineEmplaces(key, val) ==
    /\ outcome = "loading"
    /\ kv_store' = [kv_store EXCEPT ![key] = IF @ = Absent THEN val ELSE @]
    /\ given' = [given EXCEPT ![key] = val]
    /\ UNCHANGED <<outcome, filepath, config, before>>

ReadLine(key, val) ==
    /\ outcome = "loading"
    /\ kv_store' = [kv_store EXCEPT ![key] = val]
    /\ given' = [given EXCEPT ![key] = val]
    /\ UNCHANGED <<outcome, filepath, config, before>>

Numeric(k) == Place[k] <= 4

(* static_cast<uint16_t>(stoi), stoul, stoll, or the text itself.          *)
Converted(k, text) ==
    IF k = "port" THEN text % PortModulus
    ELSE IF k = "thread_pool_size" THEN text % SizeModulus
    ELSE text

Throws(k) == Numeric(k) /\ kv_store[k] = Malformed

(* apply_kv comes as far as k.                                             *)
Reached(k) == \A j \in Settings : Throws(j) => Place[k] < Place[j]

apply_kv ==
    config' = [k \in Settings |->
        IF kv_store[k] # Absent /\ Reached(k) THEN Converted(k, kv_store[k]) ELSE config[k]]

(* The rest of load_from_file; nobody catches the exception in there.      *)
Apply ==
    /\ outcome = "loading"
    /\ apply_kv
    /\ outcome' = IF \E k \in Settings : Throws(k) THEN "threw" ELSE "loaded"
    /\ UNCHANGED <<filepath, kv_store, before, given>>

validate ==
    /\ config["port"] # 0 /\ config["port"] < PortModulus
    /\ config["thread_pool_size"] # 0 /\ config["thread_pool_size"] <= MaxPool
    /\ config["rate_limit_capacity"] > 0 /\ config["rate_limit_refill_rate"] > 0

ConfigNext ==
    \/ Open \/ OpenFails \/ reload
    \/ \E k \in Mentioned, text \in Text : ReadLine(k, text)
    \/ Apply

ConfigSpec == ConfigInit /\ [][ConfigNext]_configuration

-----------------------------------------------------------------------------
(* A hot reload takes effect, whatever earlier loads left in the store:    *)
(* after a load that returned, each setting in the file has the value of   *)
(* its last line there, which was no malformed number; after one that      *)
(* threw, that value or the one it had before, so that no text of an older *)
(* file comes back in its place; and a file that does not open changes     *)
(* nothing.                                                                *)
AsGiven(k) ==
    /\ Numeric(k) => given[k] # Malformed
    /\ config[k] = Converted(k, given[k])

ReloadTakesEffect ==
    /\ outcome = "failed" => config = before
    /\ \A k \in Settings :
          /\ outcome = "loaded" /\ given[k] # Absent => AsGiven(k)
          /\ outcome = "threw" /\ given[k] # Absent => config[k] = before[k] \/ AsGiven(k)

(* "Invalid port > 65535" (src/phase21_config_subsystem.cpp:48): after a   *)
(* load, validate rejects a port that is outside its range.                *)
PortIsChecked ==
    outcome = "loaded" /\ kv_store["port"] # Absent /\ validate
        => kv_store["port"] \in 1 .. PortModulus - 1
=============================================================================
