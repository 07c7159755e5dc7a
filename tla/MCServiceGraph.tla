--------------------------- MODULE MCServiceGraph ---------------------------
(* ServiceGraph for TLC, on services, links and routes of the application.    *)
EXTENDS ServiceGraph, TLC

CONSTANTS ProfileService, EmailSenderService, TwilioService, SMSService,
          CeleryService, VaultService,
          sms_relay_otp, delete_profile, modify_settings

MCService == {ProfileService, EmailSenderService, TwilioService, SMSService,
              CeleryService, VaultService}

MCParent == (ProfileService :> None) @@ (EmailSenderService :> ProfileService)
         @@ (TwilioService :> ProfileService) @@ (SMSService :> TwilioService)
         @@ (CeleryService :> ProfileService) @@ (VaultService :> None)

MCCreated == (VaultService :> 0) @@ (ProfileService :> 1) @@ (CeleryService :> 2)
          @@ (EmailSenderService :> 3) @@ (TwilioService :> 4) @@ (SMSService :> 5)

\* profile_service.py:115; no route takes the writer of MongooseService (:122)
MCNeeds == [s \in MCService |-> IF s = ProfileService THEN {VaultService} ELSE {}]

\* profile_ressource.py: a profile was added or deleted
MCMessage == {[service |-> ProfileService, destroy |-> TRUE, build |-> TRUE]}

\* sms_ressource.py:107, profile_ressource.py:101 and properties_ressource.py:63
MCPings == (sms_relay_otp :> {ProfileService, TwilioService, SMSService})
        @@ (delete_profile :> {VaultService}) @@ (modify_settings :> {VaultService})

MCLocks == (sms_relay_otp :> <<ProfileService, TwilioService>>)
        @@ (delete_profile :> <<VaultService, ProfileService, CeleryService>>)
        @@ (modify_settings :> <<VaultService>>)
=============================================================================
