------------------------------ MODULE MqttConfig ------------------------------
(***************************************************************************)
(* The MQTT configuration store, src/src/protocols/mqtt_config.c.          *)
(*                                                                         *)
(* The configuration lives in RAM (config_data, reached through the        *)
(* config_values table).  MQTTConfig_Save writes the table's entries to    *)
(* NVS one by one in table order, then replaces the certificate file       *)
(* (stat, unlink, fopen, fwrite), then commits, then calls the apply       *)
(* callback, which is MqttApp's config_update_callback: MqttApp_Deinit and *)
(* MqttApp_Init, whose MQTTConfig_Init reloads RAM from NVS and the file,  *)
(* and mqtt_connect then connects with RAM.  A restart runs MqttApp_Init   *)
(* on zeroed RAM.                                                          *)
(*                                                                         *)
(* ESP-IDF's NVS writes an entry to flash before nvs_set_* returns, so a  *)
(* reset keeps every entry already set; nvs_commit adds nothing a reset    *)
(* could lose.  The values are abstracted to a few model values per entry *)
(* and the certificate to a few whole certificates; NoCert is the empty,   *)
(* all-zero buffer, which is also what reading an empty or missing file    *)
(* leaves in zeroed RAM.                                                   *)
(***************************************************************************)
EXTENDS Naturals, Sequences, FiniteSets

CONSTANTS Entries,    \* the NVS entries of config_values in table order
          Values,     \* the values each entry may hold, a function
          Default,    \* the default value of each entry, a function
          Certs,      \* certificates, NoCert included
          NoCert,     \* the empty certificate (zeroed buffer)
          Absent,     \* an NVS key never written
          NoFile,     \* MQTT_CERT_FILE does not exist (or is empty)
          MaxSaves    \* bound: calls of MQTTConfig_Save

Keys == {Entries[i] : i \in 1 .. Len(Entries)}

AllVals == UNION {Values[k] : k \in Keys}

ASSUME /\ \A k \in Keys : Default[k] \in Values[k]
       /\ NoCert \in Certs /\ Absent \notin AllVals /\ NoFile \notin Certs

(* A whole configuration: the entries' values and the certificate.        *)
Configs == [vals : {f \in [Keys -> AllVals] : \A k \in Keys : f[k] \in Values[k]},
            cert : Certs]
Defaults == [vals |-> Default, cert |-> NoCert]

VARIABLES ram,      \* config_data
          nvs,      \* the NVS namespace: a value or Absent per key
          created,  \* the namespace exists (a READWRITE open created it)
          file,     \* the contents of MQTT_CERT_FILE
          spc,      \* progress of MQTTConfig_Save: "idle", or the step next
          i,        \* the loop index of _save_data
          result,   \* what _save_data will return so far
          loaded,   \* what the last MQTTConfig_Init put in RAM
          saved,    \* ghost: the RAM configurations Save calls started from
          saves     \* calls of MQTTConfig_Save so far

vars == <<ram, nvs, created, file, spc, i, result, loaded, saved, saves>>

(* The steps of MQTTConfig_Save: write entry i, then the certificate's   *)
(* unlink and fopen/fwrite, nvs_commit, the callback.                     *)
SaveSteps == {"entry", "unlink", "open", "commit", "callback"}

TypeOK ==
    /\ ram \in Configs
    /\ nvs \in [Keys -> AllVals \cup {Absent}] /\ created \in BOOLEAN
    /\ file \in Certs \cup {NoFile}
    /\ spc \in SaveSteps \cup {"idle"} /\ i \in 1 .. Len(Entries)
    /\ result \in BOOLEAN
    /\ loaded \in Configs
    /\ saved \subseteq Configs /\ saves \in 0 .. MaxSaves

(* _read_data: nvs_open READONLY fails when the namespace was never       *)
(* created (or on a flash error) and _set_default_config runs; otherwise  *)
(* each entry is read, a missing key falling back to its default, and the *)
(* certificate is fread from the file, which leaves the buffer as it was  *)
(* when the file is missing or empty.                                    *)
ReadData(buf) ==
    [vals |-> [k \in Keys |-> IF nvs[k] = Absent THEN Default[k] ELSE nvs[k]],
     cert |-> IF file \in {NoFile, NoCert} THEN buf ELSE file]

Loads(buf) == {Defaults} \cup (IF created THEN {ReadData(buf)} ELSE {})

(* First boot: empty NVS, no file; MqttApp_Init loads the defaults.       *)
Init ==
    /\ nvs = [k \in Keys |-> Absent] /\ created = FALSE /\ file = NoFile
    /\ ram = Defaults /\ loaded = Defaults
    /\ spc = "idle" /\ i = 1 /\ result = TRUE
    /\ saved = {} /\ saves = 0

Idle == spc = "idle"

(* MQTTConfig_SetString / SetBool on an entry of the matching type: the   *)
(* RAM value is replaced.  A string too long is refused and changes       *)
(* nothing.                                                              *)
SetValue(k, v) ==
    /\ Idle
    /\ ram' = [ram EXCEPT !.vals[k] = v]
    /\ UNCHANGED <<nvs, created, file, spc, i, result, loaded, saved, saves>>

(* MQTTConfig_SetCert: the chunks of a certificate are copied into the    *)
(* buffer; a certificate is one step here.                                *)
SetCert(c) ==
    /\ Idle
    /\ ram' = [ram EXCEPT !.cert = c]
    /\ UNCHANGED <<nvs, created, file, spc, i, result, loaded, saved, saves>>

(* MQTTConfig_Save, _save_data: nvs_open READWRITE.  On failure           *)
(* _save_data returns false and the callback still runs.                  *)
SaveBegin ==
    /\ Idle /\ saves < MaxSaves
    /\ saves' = saves + 1
    /\ saved' = saved \cup {ram}
    /\ \/ spc' = "entry" /\ created' = TRUE /\ result' = TRUE
       \/ spc' = "callback" /\ result' = FALSE /\ UNCHANGED created
    /\ i' = 1
    /\ UNCHANGED <<ram, nvs, file, loaded>>

(* nvs_set_str / nvs_set_u8 of entry i.  A failure is only printed        *)
(* ("Cannot save"): err is overwritten by the next entry and the loop     *)
(* goes on.                                                              *)
SaveEntry ==
    /\ spc = "entry"
    /\ \/ nvs' = [nvs EXCEPT ![Entries[i]] = ram.vals[Entries[i]]]
       \/ UNCHANGED nvs
    /\ IF i = Len(Entries) THEN spc' = "unlink" /\ UNCHANGED i
                           ELSE i' = i + 1 /\ UNCHANGED spc
    /\ UNCHANGED <<ram, created, file, result, loaded, saved, saves>>

(* The certificate entry: stat finds the file and unlink removes it.      *)
SaveUnlink ==
    /\ spc = "unlink"
    /\ file' = NoFile /\ spc' = "open"
    /\ UNCHANGED <<ram, nvs, created, i, result, loaded, saved, saves>>

(* fopen "wb" and fwrite of strlen(cert) bytes.  When fopen fails the     *)
(* case breaks with err still ESP_OK from the last entry, so nothing      *)
(* marks the failure.                                                    *)
SaveOpen ==
    /\ spc = "open"
    /\ \/ file' = ram.cert
       \/ UNCHANGED file
    /\ spc' = "commit"
    /\ UNCHANGED <<ram, nvs, created, i, result, loaded, saved, saves>>

(* nvs_commit; a failure makes _save_data return false.                   *)
SaveCommit ==
    /\ spc = "commit"
    /\ \/ UNCHANGED result
       \/ result' = FALSE
    /\ spc' = "callback"
    /\ UNCHANGED <<ram, nvs, created, file, i, loaded, saved, saves>>

(* apply_config_callback: MqttApp_Deinit, then MqttApp_Init, whose        *)
(* MQTTConfig_Init reloads RAM (the certificate buffer keeping its        *)
(* contents if the file cannot be read) and connects with it; Save then   *)
(* returns result.                                                       *)
SaveCallback ==
    /\ spc = "callback"
    /\ \E c \in Loads(ram.cert) : ram' = c /\ loaded' = c
    /\ spc' = "idle"
    /\ UNCHANGED <<nvs, created, file, i, result, saved, saves>>

(* A reset at any point, followed by MqttApp_Init on zeroed RAM.          *)
Restart ==
    /\ \E c \in Loads(NoCert) : ram' = c /\ loaded' = c
    /\ spc' = "idle"
    /\ UNCHANGED <<nvs, created, file, i, result, saved, saves>>

Next ==
    \/ \E k \in Keys : \E v \in Values[k] : SetValue(k, v)
    \/ \E c \in Certs : SetCert(c)
    \/ SaveBegin \/ SaveEntry \/ SaveUnlink \/ SaveOpen \/ SaveCommit
    \/ SaveCallback \/ Restart

Spec == Init /\ [][Next]_vars

-----------------------------------------------------------------------------
(* MQTTConfig_Init only ever loads, for MqttApp_Init to connect with, a   *)
(* configuration that some MQTTConfig_Save was asked to store, whole, or  *)
(* the defaults: never a mix of two configurations, nor one that lost its *)
(* certificate.                                                          *)
(* Fails when a reset falls between the NVS writes or between the unlink  *)
(* and the fwrite, or when an nvs_set or the fopen fails, which _save_data *)
(* does not report.                                                      *)
LoadedConfigWasSaved == loaded \in saved \cup {Defaults}
=============================================================================
