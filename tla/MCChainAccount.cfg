SPECIFICATION AccountPublishSpec
CONSTANTS
    tab1 = tab1
    tab2 = tab2
    phoneTab = phoneTab
    laptop = laptop
    phone = phone
    Profiles = {laptop, phone}
    Tabs = {tab1, tab2, phoneTab}
    ProfileOf <- ProfilesOfTabs
    Peers = {payer}
    Calls = {start}
    MaxAccounts = 2
    MaxUpsets = 2
INVARIANTS
    AccountsAreHeld
    TwoAccountsOnlyIfMissed
PROPERTY
    FoundUnlessInterrupted
CHECK_DEADLOCK FALSE
