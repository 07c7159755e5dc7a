\* The same services: what the cascade does with a dependent whose parent is usable.
SPECIFICATION FairSpec
CONSTANTS
    None = None
    ProfileService = ProfileService
    EmailSenderService = EmailSenderService
    TwilioService = TwilioService
    SMSService = SMSService
    CeleryService = CeleryService
    VaultService = VaultService
    sms_relay_otp = sms_relay_otp
    delete_profile = delete_profile
    modify_settings = modify_settings
    Service <- MCService
    Parent <- MCParent
    Created <- MCCreated
    Destroys = {EmailSenderService, TwilioService, SMSService}
    Verifies = {SMSService}
    Inverted = {SMSService}
    Checks = {EmailSenderService, SMSService}
    Skips = {CeleryService}
    MayRefuse = {ProfileService}
    Needs <- MCNeeds
    Message <- MCMessage
    Route = {sms_relay_otp, delete_profile, modify_settings}
    Pings <- MCPings
    Locks <- MCLocks
    Exclusive = {sms_relay_otp, modify_settings}
    Timed = {sms_relay_otp}
    MaxQueue = 1
PROPERTIES
    SufficientIsRebuilt
CHECK_DEADLOCK FALSE
