\* A rebuild of ProfileService against its dependents and three routes: one writes two
\* of the services, one reads three, one writes VaultService.  They can wait for each
\* other for ever: that deadlock is the one exception CascadeSettles makes.
SPECIFICATION FairSpec
CONSTANTS
    None = None
    ProfileService = ProfileService
    EmailSenderService = EmailSenderService
    TwilioService = TwilioService
    SMSService = SMSService
    CeleryService = CeleryService
    VaultService = VaultService
    sms_relay_otp = sms_relay_otp
    delete_profile = delete_profile
    modify_settings = modify_settings
    Service <- MCService
    Parent <- MCParent
    Created <- MCCreated
    Destroys = {EmailSenderService, TwilioService, SMSService}
    Verifies = {SMSService}
    Inverted = {SMSService}
    Checks = {EmailSenderService, SMSService}
    Skips = {CeleryService}
    MayRefuse = {ProfileService}
    Needs <- MCNeeds
    Message <- MCMessage
    Route = {sms_relay_otp, delete_profile, modify_settings}
    Pings <- MCPings
    Locks <- MCLocks
    Exclusive = {sms_relay_otp, modify_settings}
    Timed = {sms_relay_otp}
    MaxQueue = 1
INVARIANTS
    NoStaleService
    NoneAboveAFailure
PROPERTIES
    StableUnderLock
    CascadeSettles
CHECK_DEADLOCK FALSE
